---- MODULE Spec2Model ----
(***************************************************************************)
(* Process runtime of the rimmy kernel: frame allocator, per-process page  *)
(* tables, ELF loading, the exec chain (run / exit), brk / mmap / munmap   *)
(* and the kernel console with its pipeline stages.                        *)
(*                                                                         *)
(* Addresses are byte addresses.  The virtual layout is scaled down: the   *)
(* modelled address space has NPages pages of PAGE bytes, and the layout   *)
(* constants of the source (USER_LOWER, USER_UPPER, USER_STACK_TOP, ...)   *)
(* keep their order and page alignment but sit a few pages apart.          *)
(***************************************************************************)
EXTENDS Integers, Sequences, FiniteSets, TLC

----------------------------------------------------------------------------
(* Bounds of the model *)

NFrames == 22          \* frames of the largest machine
SmallFrames == 16      \* frames of the smallest machine
HeapFrames == 2        \* frames the kernel heap took at boot (they back the framebuffer buffer)
NPages == 16           \* pages of the modelled user address space
TableSpan == 4         \* pages covered by one leaf page table
LowerPage == 4         \* page number of USER_LOWER / MAIN_DYN_LOAD_BASE
InterpPage == 8        \* page number of INTERP_DYN_LOAD_BASE
UpperPage == 12        \* page number of USER_UPPER
StackTopPage == 15     \* page number of USER_STACK_TOP
StackPages == 1        \* pages of the user stack
MaxChain == 3          \* longest exec chain (console included)
MaxPid == 4            \* process creation stops once NEXT_PID reaches this
MaxSyscalls == 3       \* syscalls a user program issues before it only exits
MaxFdCalls == 4        \* descriptor syscalls a user program issues
MaxArgs == 3           \* most argv strings of a stack built on its own
MaxEnv == 2            \* most environment strings of a stack built on its own
MaxPolls == 2          \* system calls of a program up to its last poll
MaxTicks == 2          \* timer interrupts counted while no poll waits for a deadline
MaxKeys == 2           \* most keystrokes waiting in the terminal's input buffer
MaxHeld == 4           \* frames held at a time from the allocator taken on its own
MaxMembers == 2        \* members of an initramfs archive
MaxAllocs == 3         \* alloc_pages and loader calls on one address space taken on its own

----------------------------------------------------------------------------
(* Program constants *)

PAGE == 4096
EINVAL == -22
ENOMEM == -12
ENOSYS == -38
ESRCH == -3
EBADF == -9
\* errno numbers of the syscall types; a handler returns their negation
ENOENT == 2
EFAULT == 14
ENOTDIR == 20
EISDIR == 21
EIO == 5
DIRENT64_HDR == 19
POLLIN == 1
POLLOUT == 4
POLLNVAL == 32
TICK_US == 54925
TF_FLAG == 256
IF_FLAG == 512
DT_DIR == 4
DT_REG == 8
EAGAIN == 11
ENOSYS_DISPATCH == 1051    \* SyscallError::ENOSYS, the dispatcher's ENOSYS

AT_FDCWD == -100
O_RDONLY == 0
O_WRONLY == 1
O_RDWR == 2
O_ACCMODE == 3
O_CREAT == 64
O_APPEND == 1024
O_NONBLOCK == 2048
O_DIRECTORY == 65536
O_CLOEXEC == 524288
O_PATH == 2097152
FD_CLOEXEC == 1
F_DUPFD == 0
F_GETFD == 1
F_SETFD == 2
F_GETFL == 3
F_SETFL == 4
ARCH_SET_GS == 4097
ARCH_SET_FS == 4098
ARCH_GET_FS == 4099
ARCH_GET_GS == 4100
SYSCALL_LEN == 2       \* length of the SYSCALL instruction: RCX = RIP + 2

USER_LOWER == LowerPage * PAGE
USER_UPPER == UpperPage * PAGE
USER_STACK_TOP == StackTopPage * PAGE
USER_STACK_SIZE == StackPages * PAGE
MAIN_DYN_LOAD_BASE == LowerPage * PAGE
INTERP_DYN_LOAD_BASE == InterpPage * PAGE

NoFrame == 0 - 1
Frames == 0 .. (NFrames - 1)
VPages == 0 .. (NPages - 1)
Groups == 0 .. ((NPages - 1) \div TableSpan)

\* Binds v in F: a local name for an intermediate result.
Let(v, F(_)) == F(v)

Min(a, b) == IF a < b THEN a ELSE b
Max(a, b) == IF a > b THEN a ELSE b

\* x & bit, for bit a power of two.
BitAnd(x, bit) == ((x \div bit) % 2) * bit

\* x & mask, mask given as the set of its bits.
RECURSIVE MaskAnd(_, _)
MaskAnd(x, bits) ==
    IF bits = {} THEN 0
    ELSE LET b == CHOOSE v \in bits : TRUE
         IN  BitAnd(x, b) + MaskAnd(x, bits \ {b})

align_up(x, a) == ((x + a - 1) \div a) * a
align_dn(x, a) == (x \div a) * a

----------------------------------------------------------------------------
(* State *)

VARIABLES
    proc_list,        \* PROCESS_TABLE.proc_list
    PID,              \* the current-PID register
    NEXT_PID,         \* the PID counter
    cr3,              \* frame of the active top-level page table
    frames_count,     \* frames of the usable memory the boot loader reported
    bitmap,           \* allocated frames
    next_free_index,  \* allocator cursor
    cpu,              \* who runs: [mode, rip, rsp]
    PIPELINE_STATE,   \* the console's pipeline stage
    terminal,         \* bytes user programs got onto the terminal since the last prompt
    line,             \* the command line being run: [segments, started]
    msr,              \* IA32_FS_BASE, IA32_GS_BASE, IA32_KERNEL_GS_BASE: [fs, gs, kgs, entry]
    tty,              \* the terminal: [input_buffer, read_to_count, rd]
    disk,             \* the data file of the root file system: [size, data]
    TICKS,            \* timer interrupts counted by the PIT driver
    polling,          \* the poll call that sits in halt(): [active, fds, start, timeout_ms]
    ret               \* the last operation and its result

vars == <<proc_list, PID, NEXT_PID, cr3, frames_count, bitmap, next_free_index, cpu,
          PIPELINE_STATE, terminal, line, msr, tty, disk, TICKS, polling, ret>>

----------------------------------------------------------------------------
(* Bitmap frame allocator.  An allocator state is [bitmap, next, count]:   *)
(* the set of allocated indices, next_free_index and frames_count.  There  *)
(* is one usable region, so a frame is identified with its bitmap index.   *)

allocate_frame(a) ==
    LET cand == { i \in 0 .. (a.count - 1) :
                    ((a.next + i) % a.count) \notin a.bitmap }
    IN  IF cand = {}
        THEN [frame |-> NoFrame, a |-> a]
        ELSE LET i == CHOOSE c \in cand : \A d \in cand : c <= d
                 index == (a.next + i) % a.count
             IN  [frame |-> index,
                  a |-> [a EXCEPT !.bitmap = @ \cup {index}, !.next = index + 1]]

deallocate_frame(a, frame) ==
    IF frame \in a.bitmap
    THEN [a EXCEPT !.bitmap = @ \ {frame}, !.next = Min(@, frame)]
    ELSE a

----------------------------------------------------------------------------
(* Paging.  A memory state m is [bitmap, next, count, map, tables]: the    *)
(* allocator together with one address space; map[p] is the frame of page  *)
(* p (or                                                                   *)
(* NoFrame), tables[g] the frame of the page table of group g.  The three  *)
(* intermediate levels of the hierarchy are folded into one table per      *)
(* group of TableSpan pages.                                               *)

GroupOf(page) == page \div TableSpan

AllocOf(m) == [bitmap |-> m.bitmap, next |-> m.next, count |-> m.count]
WithAlloc(m, a) == [m EXCEPT !.bitmap = a.bitmap, !.next = a.next]

\* Mapper::map_to: intermediate tables are created first, then the entry
\* is written unless it is already in use.
map_to(m, page, frame) ==
    LET g == GroupOf(page)
    IN  Let(allocate_frame(AllocOf(m)), LAMBDA t :
        Let(IF m.tables[g] # NoFrame THEN m
            ELSE IF t.frame = NoFrame THEN m
            ELSE [WithAlloc(m, t.a) EXCEPT !.tables[g] = t.frame], LAMBDA m1 :
            IF m1.tables[g] = NoFrame THEN [ok |-> FALSE, m |-> m1]
            ELSE IF m1.map[page] # NoFrame THEN [ok |-> FALSE, m |-> m1]
            ELSE [ok |-> TRUE, m |-> [m1 EXCEPT !.map[page] = frame]]))

FirstPage(addr) == addr \div PAGE
LastPage(addr, size) == (addr + Max(size - 1, 0)) \div PAGE

RECURSIVE alloc_range(_, _, _)
alloc_range(m, page, last) ==
    IF page > last THEN m
    ELSE Let(allocate_frame(AllocOf(m)), LAMBDA f :
             IF f.frame = NoFrame
             THEN alloc_range(m, page + 1, last)
             ELSE alloc_range(map_to(WithAlloc(m, f.a), page, f.frame).m, page + 1, last))

\* alloc_pages never reports a failure: a page whose frame or table cannot
\* be had, or which is mapped already, is skipped (the frame taken for an
\* already-mapped page is not given back).
alloc_pages(m, addr, size) ==
    [ok |-> TRUE, m |-> alloc_range(m, FirstPage(addr), LastPage(addr, size))]

RECURSIVE free_tables(_, _, _)
free_tables(a, tables, gs) ==
    IF gs = {} THEN a
    ELSE LET g == CHOOSE x \in gs : \A y \in gs : x <= y
         IN  free_tables(deallocate_frame(a, tables[g]), tables, gs \ {g})

\* Mapper::clean_up: every page table without a mapped page is freed.
clean_up(m) ==
    LET empty == { g \in Groups : m.tables[g] # NoFrame
                     /\ \A p \in VPages : GroupOf(p) = g => m.map[p] = NoFrame }
    IN  [WithAlloc(m, free_tables(AllocOf(m), m.tables, empty)) EXCEPT
            !.tables = [g \in Groups |-> IF g \in empty THEN NoFrame ELSE m.tables[g]]]

RECURSIVE dealloc_range(_, _, _)
dealloc_range(m, page, last) ==
    IF page > last THEN m
    ELSE IF m.map[page] = NoFrame THEN dealloc_range(m, page + 1, last)
    ELSE Let(clean_up([m EXCEPT !.map[page] = NoFrame]), LAMBDA m1 :
             dealloc_range(WithAlloc(m1, deallocate_frame(AllocOf(m1), m.map[page])),
                           page + 1, last))

dealloc_pages(m, addr, size) ==
    [ok |-> TRUE, m |-> dealloc_range(m, FirstPage(addr), LastPage(addr, size))]

RECURSIVE unmap_range(_, _, _)
unmap_range(m, page, last) ==
    IF page > last THEN m
    ELSE unmap_range([m EXCEPT !.map[page] = NoFrame], page + 1, last)

unmap_user_pages(m, addr, size) ==
    [ok |-> TRUE, m |-> unmap_range(m, FirstPage(addr), LastPage(addr, size))]

\* The framebuffer's shared buffer lies in the kernel heap: its i-th page
\* is heap frame i.
shared_mem_len == HeapFrames * PAGE

RECURSIVE map_buffer_range(_, _, _, _)
map_buffer_range(m, src, dst, end) ==
    IF src >= end THEN [ok |-> TRUE, m |-> m]
    ELSE Let(map_to(m, dst \div PAGE, src \div PAGE), LAMBDA r :
             IF ~r.ok THEN [ok |-> FALSE, m |-> r.m]
             ELSE map_buffer_range(r.m, src + PAGE, dst + PAGE, end))

map_kernel_buffer(m, kernel_ptr, len, user_va) ==
    IF len = 0 THEN [ok |-> FALSE, m |-> m]
    ELSE map_buffer_range(m, align_dn(kernel_ptr, PAGE), user_va,
                          align_up(kernel_ptr + len, PAGE))

----------------------------------------------------------------------------
(* Files of the VFS that matter here.  An ELF image is [magic, parse,      *)
(* e_type, e_entry, segs, interp, pt_phdr, e_phoff, e_phentsize, e_phnum]: *)
(* whether the magic is right, whether the object parser accepts it,       *)
(* ET_EXEC (2) or ET_DYN (3), the entry, the PT_LOAD segments as           *)
(* <<p_vaddr, p_memsz, p_offset, p_filesz>>, the PT_INTERP path ("" if     *)
(* there is none), the p_vaddr of PT_PHDR (NoPhdr if there is none) and    *)
(* the place of the program header table in the file.                      *)

\* e_type of a shared object (ET_DYN); an executable has e_type 2.
ET_DYN == 3
NoPhdr == 0 - 1
EHDR_SIZE == 64        \* size of Elf64Ehdr: where the program headers start
PHDR_SIZE == 56        \* size of Elf64Phdr

ElfHello == [magic |-> TRUE, parse |-> TRUE, e_type |-> 2, e_entry |-> PAGE + 16,
             segs |-> << <<PAGE, 100, 0, 100>> >>, interp |-> "",
             pt_phdr |-> NoPhdr, e_phoff |-> EHDR_SIZE, e_phentsize |-> PHDR_SIZE,
             e_phnum |-> 1]
ElfDyn   == [magic |-> TRUE, parse |-> TRUE, e_type |-> ET_DYN, e_entry |-> 32,
             segs |-> << <<0, PAGE + 8, 0, PAGE>> >>, interp |-> "/lib/ld",
             pt_phdr |-> EHDR_SIZE, e_phoff |-> EHDR_SIZE, e_phentsize |-> PHDR_SIZE,
             e_phnum |-> 3]
ElfLd    == [magic |-> TRUE, parse |-> TRUE, e_type |-> ET_DYN, e_entry |-> 64,
             segs |-> << <<0, 200, 0, 200>> >>, interp |-> "",
             pt_phdr |-> NoPhdr, e_phoff |-> EHDR_SIZE, e_phentsize |-> PHDR_SIZE,
             e_phnum |-> 1]
ElfNoInt == [magic |-> TRUE, parse |-> TRUE, e_type |-> ET_DYN, e_entry |-> 32,
             segs |-> << <<0, 100, 0, 100>> >>, interp |-> "/lib/missing",
             pt_phdr |-> NoPhdr, e_phoff |-> EHDR_SIZE, e_phentsize |-> PHDR_SIZE,
             e_phnum |-> 2]
ElfBad   == [magic |-> FALSE, parse |-> FALSE, e_type |-> 2, e_entry |-> 0,
             segs |-> << >>, interp |-> "",
             pt_phdr |-> NoPhdr, e_phoff |-> 0, e_phentsize |-> 0, e_phnum |-> 0]
\* An ET_EXEC program with PT_INTERP and no PT_PHDR whose first PT_LOAD
\* covers the program headers.
ElfStat  == [magic |-> TRUE, parse |-> TRUE, e_type |-> 2, e_entry |-> (2 * PAGE) + 48,
             segs |-> << <<2 * PAGE, 300, 0, 300>> >>, interp |-> "/lib/ld",
             pt_phdr |-> NoPhdr, e_phoff |-> EHDR_SIZE, e_phentsize |-> PHDR_SIZE,
             e_phnum |-> 2]
\* An ET_DYN program with PT_INTERP and no PT_PHDR whose only PT_LOAD
\* starts one page into the file, past the program headers.
ElfNoPh  == [magic |-> TRUE, parse |-> TRUE, e_type |-> ET_DYN, e_entry |-> 16,
             segs |-> << <<0, 100, PAGE, 100>> >>, interp |-> "/lib/ld",
             pt_phdr |-> NoPhdr, e_phoff |-> EHDR_SIZE, e_phentsize |-> PHDR_SIZE,
             e_phnum |-> 2]

ElfPaths == {"/bin/hello", "/bin/dyn", "/lib/ld", "/bin/noint", "/bin/bad", "/bin/stat",
             "/bin/noph"}
DevPaths == {"/dev/fb0"}

\* VFS.open(path): the node (its type, contents and metadata.size), or
\* "none" when the path does not exist.
vfs_open(path) ==
    CASE path = "/bin/hello" -> [kind |-> "file", elf |-> ElfHello, size |-> 5]
      [] path = "/bin/dyn"   -> [kind |-> "file", elf |-> ElfDyn, size |-> 6]
      [] path = "/lib/ld"    -> [kind |-> "file", elf |-> ElfLd, size |-> 7]
      [] path = "/bin/noint" -> [kind |-> "file", elf |-> ElfNoInt, size |-> 6]
      [] path = "/bin/bad"   -> [kind |-> "file", elf |-> ElfBad, size |-> 1]
      [] path = "/bin/stat"  -> [kind |-> "file", elf |-> ElfStat, size |-> 8]
      [] path = "/bin/noph"  -> [kind |-> "file", elf |-> ElfNoPh, size |-> 9]
      [] path = "/dev/fb0"   -> [kind |-> "fb", elf |-> ElfBad, size |-> 0]
      [] path = "/"          -> [kind |-> "dir", elf |-> ElfBad, size |-> 0]
      [] path = "/bin"       -> [kind |-> "dir", elf |-> ElfBad, size |-> 0]
      [] OTHER               -> [kind |-> "none", elf |-> ElfBad, size |-> 0]

\* The data file of the root file system and its bytes at boot.
LogPath == "/var/log"
LogData == << 7 >>

\* RimmyFs::open: the node as the inode on the disk describes it now; its
\* metadata.size is a copy of the inode's size at this moment.
RimmyFs_open(g, path) ==
    IF path = LogPath THEN [kind |-> "file", elf |-> ElfBad, size |-> g.disk.size]
    ELSE vfs_open(path)

\* TFSVfsNode::write inside the first zone of the file: the block is read
\* back unless the write starts at byte 0, the data is copied in at lba, and
\* the inode's size becomes the end of this write.
Zeros(n) == [i \in 1 .. n |-> 0]

TFSVfsNode_write(d, lba, data) ==
    LET old == IF lba = 0 THEN << >> ELSE d.data
        ext == Max(Len(old), lba + Len(data))
        blk == [i \in 1 .. ext |->
                   IF i > lba /\ i <= lba + Len(data) THEN data[i - lba]
                   ELSE IF i <= Len(old) THEN old[i] ELSE 0]
    IN  [size |-> lba + Len(data), data |-> blk]

----------------------------------------------------------------------------
(* ELF loader *)

RECURSIVE load_segments(_, _, _, _, _, _)
load_segments(segs, i, load_bias, m, asv, max_end) ==
    IF i > Len(segs) THEN [m |-> m, asv |-> asv, max_end |-> max_end]
    ELSE LET size == segs[i][2]
             base_addr == load_bias + segs[i][1]
             seg_end == base_addr + size
         IN  IF size = 0
             THEN load_segments(segs, i + 1, load_bias, m, asv, max_end)
             ELSE load_segments(segs, i + 1, load_bias,
                                alloc_pages(m, base_addr, size).m,
                                Append(asv, <<base_addr, size>>),
                                Max(max_end, seg_end))

\* The runtime address of the program headers: PT_PHDR, else the first
\* PT_LOAD whose file range covers the table, else 0.
RECURSIVE phdr_in_load(_, _, _, _)
phdr_in_load(elf, i, load_bias, ph_tbl_end) ==
    IF i > Len(elf.segs) THEN 0
    ELSE IF elf.e_phoff >= elf.segs[i][3] /\ ph_tbl_end <= elf.segs[i][3] + elf.segs[i][4]
    THEN load_bias + elf.segs[i][1] + (elf.e_phoff - elf.segs[i][3])
    ELSE phdr_in_load(elf, i + 1, load_bias, ph_tbl_end)

NoImage(m, asv) ==
    [ok |-> FALSE, m |-> m, asv |-> asv, entry_point |-> 0, max_end |-> 0,
     load_base |-> 0, interp_path |-> "", phdr_va |-> 0, phent |-> 0, phnum |-> 0]

\* A load_elf_image that reports the entry as the file has it, without the
\* load bias.
load_elf_image_entry_unbiased(elf, m, asv, dyn_base_hint, capture_interp) ==
    IF ~elf.magic \/ ~elf.parse
    THEN NoImage(m, asv)
    ELSE LET load_bias == IF elf.e_type = ET_DYN THEN dyn_base_hint ELSE 0
             pt_phdr_va == IF elf.pt_phdr # NoPhdr THEN load_bias + elf.pt_phdr ELSE 0
         IN  Let(load_segments(elf.segs, 1, load_bias, m, asv, 0), LAMBDA l :
                 [ok |-> TRUE, m |-> l.m, asv |-> l.asv,
                  entry_point |-> elf.e_entry,
                  max_end |-> l.max_end, load_base |-> load_bias,
                  interp_path |-> IF capture_interp THEN elf.interp ELSE "",
                  phdr_va |-> IF pt_phdr_va # 0 THEN pt_phdr_va
                              ELSE phdr_in_load(elf, 1, load_bias,
                                                elf.e_phoff + (elf.e_phentsize * elf.e_phnum)),
                  phent |-> elf.e_phentsize, phnum |-> elf.e_phnum])

load_elf_image(elf, m, asv, dyn_base_hint, capture_interp) ==
    IF ~elf.magic \/ ~elf.parse
    THEN NoImage(m, asv)
    ELSE LET load_bias == IF elf.e_type = ET_DYN THEN dyn_base_hint ELSE 0
             pt_phdr_va == IF elf.pt_phdr # NoPhdr THEN load_bias + elf.pt_phdr ELSE 0
         IN  Let(load_segments(elf.segs, 1, load_bias, m, asv, 0), LAMBDA l :
                 [ok |-> TRUE, m |-> l.m, asv |-> l.asv,
                  entry_point |-> elf.e_entry + load_bias,
                  max_end |-> l.max_end, load_base |-> load_bias,
                  interp_path |-> IF capture_interp THEN elf.interp ELSE "",
                  phdr_va |-> IF pt_phdr_va # 0 THEN pt_phdr_va
                              ELSE phdr_in_load(elf, 1, load_bias,
                                                elf.e_phoff + (elf.e_phentsize * elf.e_phnum)),
                  phent |-> elf.e_phentsize, phnum |-> elf.e_phnum])

load_interpreter_image(path, m, asv) ==
    LET node == vfs_open(path)
    IN  IF node.kind = "none"
        THEN NoImage(m, asv)
        ELSE load_elf_image(node.elf, m, asv, INTERP_DYN_LOAD_BASE, FALSE)

\* The initial user stack.  A stack image is [rsp, mem, cstr, argc]: the
\* stack pointer, the 8-byte words written (address -> value) and the
\* NUL-terminated strings written (address of the first byte -> string).
NoMem == [x \in {} |-> 0]
Reverse(s) == [i \in 1 .. Len(s) |-> s[Len(s) + 1 - i]]

\* push_bytes for each string of strs in turn; ptrs collects the pointers.
RECURSIVE push_strs(_, _, _, _, _)
push_strs(rsp, strs, i, ptrs, cstr) ==
    IF i > Len(strs) THEN [rsp |-> rsp, ptrs |-> ptrs, cstr |-> cstr]
    ELSE LET p == rsp - (Len(strs[i]) + 1)
         IN  push_strs(p, strs, i + 1, Append(ptrs, p), (p :> strs[i]) @@ cstr)

\* "rsp -= 8; *rsp = p" for each p of vals in turn.
RECURSIVE push_words(_, _, _, _)
push_words(rsp, vals, i, mem) ==
    IF i > Len(vals) THEN [rsp |-> rsp, mem |-> mem]
    ELSE push_words(rsp - 8, vals, i + 1, ((rsp - 8) :> vals[i]) @@ mem)

\* The auxv array copied to rsp: pair i-1 lies at rsp + 16 * (i - 1).
aux_words(rsp, aux_vec) ==
    [a \in { rsp + (8 * k) : k \in 0 .. ((2 * Len(aux_vec)) - 1) } |->
        aux_vec[((a - rsp) \div 16) + 1][(((a - rsp) \div 8) % 2) + 1]]

\* build_initial_stack (its execfn_ptr and random16_ptr are None at the one
\* call site).
build_initial_stack(rsp0, aux_entry, at_base, argv, envp, phdr_addr, phent, phnum) ==
    Let(push_strs(rsp0, Reverse(envp), 1, << >>, NoMem), LAMBDA e :
    Let(push_strs(e.rsp, argv, 1, << >>, e.cstr), LAMBDA a :
    LET envp_ptrs == Reverse(e.ptrs)
        argv_ptrs == Reverse(a.ptrs)
        rand_ptr == a.rsp - 16
        execfn == IF argv_ptrs = << >> THEN 0 ELSE argv_ptrs[1]
        aux_vec == << <<3, phdr_addr>>, <<4, phent>>, <<5, phnum>>, <<7, at_base>>,
                      <<6, 4096>>, <<9, aux_entry>>, <<25, rand_ptr>>, <<31, execfn>>,
                      <<17, 0>>, <<18, 0>>, <<19, 0>>, <<20, 0>>, <<23, 100>>, <<0, 0>> >>
        aux_rsp == rand_ptr - (16 * Len(aux_vec))
    IN  Let(push_words(aux_rsp, <<0>> \o envp_ptrs \o <<0>> \o argv_ptrs, 1,
                       aux_words(aux_rsp, aux_vec)), LAMBDA w :
        Let(push_words(w.rsp, << Len(argv_ptrs) >>, 1, w.mem), LAMBDA c :
            [rsp |-> c.rsp, mem |-> c.mem, cstr |-> a.cstr, argc |-> Len(argv_ptrs)]))))

----------------------------------------------------------------------------
(* Process memory cursors (ProcMM) *)

ProcMM_new(heap_start) ==
    [heap_start |-> align_up(heap_start, PAGE),
     brk_cur |-> align_up(heap_start, PAGE),
     mapped_heap_end |-> align_up(heap_start, PAGE),
     mmap_base_hint |-> 0,
     mmap_regions |-> << >>]

\* set_brk on the cursors mm and the memory state m.
set_brk(mm, m, addr) ==
    LET new_end == align_up(addr, PAGE)
    IN  IF new_end < mm.heap_start
        THEN [ok |-> TRUE, brk |-> mm.brk_cur, mm |-> mm, m |-> m]
        ELSE IF new_end > mm.mapped_heap_end
        THEN Let(alloc_pages(m, mm.mapped_heap_end, new_end - mm.mapped_heap_end), LAMBDA r :
                 IF ~r.ok
                 THEN [ok |-> FALSE, brk |-> mm.brk_cur, mm |-> mm, m |-> r.m]
                 ELSE [ok |-> TRUE, brk |-> new_end,
                       mm |-> [mm EXCEPT !.mapped_heap_end = new_end, !.brk_cur = new_end],
                       m |-> r.m])
        ELSE IF new_end < mm.mapped_heap_end
        THEN [ok |-> TRUE, brk |-> new_end,
              mm |-> [mm EXCEPT !.mapped_heap_end = new_end, !.brk_cur = new_end],
              m |-> dealloc_pages(m, new_end, mm.mapped_heap_end - new_end).m]
        ELSE [ok |-> TRUE, brk |-> new_end, mm |-> [mm EXCEPT !.brk_cur = new_end], m |-> m]

ensure_mmap_base(mm) ==
    IF mm.mmap_base_hint = 0
    THEN [mm EXCEPT !.mmap_base_hint = align_up(Max(mm.mapped_heap_end, USER_LOWER), PAGE)]
    ELSE mm

\* reserve_mmap_range: base is NoFrame (-1) when the range does not fit.
reserve_mmap_range(mm0, length) ==
    LET mm == ensure_mmap_base(mm0)
        len == align_up(length, PAGE)
        base == align_up(mm.mmap_base_hint, PAGE)
        end == base + len
    IN  IF end >= USER_UPPER
        THEN [base |-> 0 - 1, mm |-> mm]
        ELSE [base |-> base, mm |-> [mm EXCEPT !.mmap_base_hint = end]]

track_mmap(mm, base, len, kind) ==
    [mm EXCEPT !.mmap_regions = Append(@, [base |-> base, len |-> len, kind |-> kind])]

RegionPos(regions, base, len) ==
    LET hits == { i \in 1 .. Len(regions) : regions[i].base = base /\ regions[i].len = len }
    IN  IF hits = {} THEN 0 ELSE CHOOSE i \in hits : \A j \in hits : i <= j

RemoveAt(s, pos) == SubSeq(s, 1, pos - 1) \o SubSeq(s, pos + 1, Len(s))

\* A remove_mmap that looks the region up by its base alone.
remove_mmap_any_len(mm, base, len) ==
    LET hits == { i \in 1 .. Len(mm.mmap_regions) : mm.mmap_regions[i].base = base }
        pos == IF hits = {} THEN 0 ELSE CHOOSE i \in hits : \A j \in hits : i <= j
    IN  IF pos = 0 THEN [kind |-> "None", mm |-> mm]
        ELSE [kind |-> mm.mmap_regions[pos].kind,
              mm |-> [mm EXCEPT !.mmap_regions = RemoveAt(@, pos)]]

\* remove_mmap: kind is "None" when no region matches.
remove_mmap(mm, base, len) ==
    LET pos == RegionPos(mm.mmap_regions, base, len)
    IN  IF pos = 0 THEN [kind |-> "None", mm |-> mm]
        ELSE [kind |-> mm.mmap_regions[pos].kind,
              mm |-> [mm EXCEPT !.mmap_regions = RemoveAt(@, pos)]]

----------------------------------------------------------------------------
(* Processes *)

KERNEL_PT == NFrames      \* the boot page table: a frame outside the allocator
RootDir == <<"", "">>     \* the path "/", split at its slashes
USER_ENV == << >>
EmptyMap == [p \in VPages |-> NoFrame]
EmptyTables == [g \in Groups |-> NoFrame]
NoUFrame == [rip |-> 0, rsp |-> 0]

\* allocate_switch_stack: four allocations, of which only the first is
\* checked; first is NoFrame when that one fails (the unwrap panics).
allocate_switch_stack(a) ==
    Let(allocate_frame(a), LAMBDA s1 :
        IF s1.frame = NoFrame THEN [first |-> NoFrame, a |-> a]
        ELSE [first |-> s1.frame,
              a |-> allocate_frame(allocate_frame(allocate_frame(s1.a).a).a).a])

\* Process::new.  res is "ok", "err" (the Err(()) returns) or "panic"
\* (an unwrap on an exhausted allocator); stack_image is the user memory
\* build_initial_stack wrote; cr3 is the CR3 value the call
\* leaves behind, a the allocator, next_pid the NEXT_PID counter.
NoProcess == [pid |-> 0]

Process_new(elf, pwd, args, parent_pid, a, old_cr3, next_pid) ==
    LET user_stack_base == USER_STACK_TOP - USER_STACK_SIZE
    IN
    Let(allocate_frame(a), LAMBDA pt :
    IF pt.frame = NoFrame
    THEN [res |-> "panic", proc |-> NoProcess, a |-> a, cr3 |-> old_cr3,
          next_pid |-> next_pid]
    ELSE IF ~elf.magic
    THEN [res |-> "err", proc |-> NoProcess, a |-> pt.a, cr3 |-> pt.frame,
          next_pid |-> next_pid]
    ELSE
    Let(load_elf_image(elf, [bitmap |-> pt.a.bitmap, next |-> pt.a.next,
                             count |-> pt.a.count, map |-> EmptyMap,
                             tables |-> EmptyTables],
                       << >>, MAIN_DYN_LOAD_BASE, TRUE), LAMBDA main :
    IF ~main.ok
    THEN [res |-> "err", proc |-> NoProcess, a |-> AllocOf(main.m), cr3 |-> pt.frame,
          next_pid |-> next_pid]
    ELSE
    \* interp is the interpreter's image, or the main image when there is no
    \* PT_INTERP.
    Let(IF main.interp_path # ""
        THEN load_interpreter_image(main.interp_path, main.m, main.asv)
        ELSE main, LAMBDA interp :
    IF ~interp.ok
    THEN [res |-> "err", proc |-> NoProcess, a |-> AllocOf(interp.m), cr3 |-> pt.frame,
          next_pid |-> next_pid]
    ELSE
    Let(alloc_pages(interp.m, user_stack_base, USER_STACK_SIZE), LAMBDA st :
    Let(allocate_switch_stack(AllocOf(st.m)), LAMBDA ss :
    \* build_initial_stack writes through the new page table: the kernel
    \* faults when the top stack page got no frame.
    IF st.m.map[FirstPage(USER_STACK_TOP - 1)] = NoFrame
    THEN [res |-> "panic", proc |-> NoProcess, a |-> AllocOf(st.m), cr3 |-> pt.frame,
          next_pid |-> next_pid]
    ELSE IF ss.first = NoFrame
    THEN [res |-> "panic", proc |-> NoProcess, a |-> AllocOf(st.m), cr3 |-> pt.frame,
          next_pid |-> (next_pid + 1) % 65536]
    ELSE LET img == build_initial_stack(USER_STACK_TOP, main.entry_point,
                                        IF main.interp_path # "" THEN interp.load_base
                                        ELSE 0,
                                        args, USER_ENV, main.phdr_va, main.phent,
                                        main.phnum)
    IN   [res |-> "ok",
          proc |-> [pid |-> next_pid, parent_pid |-> parent_pid,
                    page_table_frame |-> pt.frame,
                    entry_point |-> interp.entry_point,
                    stack |-> img.rsp, stack_image |-> img,
                    context_switch_rsp |-> ss.first,
                    addr_size_vec |-> IF st.ok
                                      THEN Append(interp.asv,
                                                  <<user_stack_base, USER_STACK_SIZE>>)
                                      ELSE interp.asv,
                    mm |-> ProcMM_new(Max(main.max_end, interp.max_end)),
                    map |-> st.m.map, tables |-> st.m.tables,
                    pwd |-> pwd,
                    fd_table |-> << >>, files |-> << >>,
                    stdio_flags |-> <<O_RDONLY, O_WRONLY, O_WRONLY>>,
                    stdio_fd_flags |-> <<0, 0, 0>>,
                    uframe |-> NoUFrame,
                    born |-> a.bitmap, opened |-> {}],
          a |-> ss.a, cr3 |-> pt.frame, next_pid |-> (next_pid + 1) % 65536])))))

\* The console process pushed by init().
ConsoleProcess(switch_first) ==
    [pid |-> 1, parent_pid |-> 1, page_table_frame |-> KERNEL_PT,
     entry_point |-> 0, stack |-> 0,
     stack_image |-> [rsp |-> 0, mem |-> NoMem, cstr |-> NoMem, argc |-> 0],
     context_switch_rsp |-> switch_first,
     addr_size_vec |-> << >>, mm |-> ProcMM_new(0),
     map |-> EmptyMap, tables |-> EmptyTables,
     pwd |-> RootDir, fd_table |-> << >>, files |-> << >>,
     stdio_flags |-> <<O_RDONLY, O_WRONLY, O_WRONLY>>, stdio_fd_flags |-> <<0, 0, 0>>,
     uframe |-> NoUFrame, born |-> {}, opened |-> {}]

\* ProcessTable::get_process: index of the first process with this pid, 0
\* when there is none.
get_process(list, pid) ==
    LET hits == { i \in 1 .. Len(list) : list[i].pid = pid }
    IN  IF hits = {} THEN 0 ELSE CHOOSE i \in hits : \A j \in hits : i <= j

RECURSIVE cleanup_regions(_, _, _)
cleanup_regions(m, asv, i) ==
    IF i > Len(asv) THEN m
    ELSE cleanup_regions(dealloc_pages(m, asv[i][1], asv[i][2]).m, asv, i + 1)

\* Process::cleanup: the allocator after the regions of addr_size_vec and
\* table_frame have been given back.
cleanup(process, table_frame, a) ==
    deallocate_frame(
        AllocOf(cleanup_regions([bitmap |-> a.bitmap, next |-> a.next, count |-> a.count,
                                 map |-> process.map, tables |-> process.tables],
                                process.addr_size_vec, 1)),
        table_frame)

----------------------------------------------------------------------------
(* State record and boot *)

\* The address of the KernelGsData block switch_tasks allocates on the
\* kernel heap at boot and puts in IA32_KERNEL_GS_BASE; its first word is
\* the kernel stack pointer.  msr.entry is the GS base through which the
\* last system call entry loaded its stack pointer.
kgs_va == 0 - PAGE

\* SWAPGS
swapgs(g) == [g EXCEPT !.msr.gs = g.msr.kgs, !.msr.kgs = g.msr.gs]

NoPipeline == [some |-> FALSE, has_input |-> FALSE, input |-> << >>,
               capture_output |-> FALSE, output |-> << >>]

\* The whole state as one record, so that handlers compose.
G == [proc_list |-> proc_list, PID |-> PID, NEXT_PID |-> NEXT_PID, cr3 |-> cr3,
      a |-> [bitmap |-> bitmap, next |-> next_free_index, count |-> frames_count],
      cpu |-> cpu,
      ps |-> PIPELINE_STATE, terminal |-> terminal, line |-> line, msr |-> msr,
      tty |-> tty, disk |-> disk, TICKS |-> TICKS, polling |-> polling]

Apply(g, r) ==
    /\ proc_list' = g.proc_list
    /\ PID' = g.PID
    /\ NEXT_PID' = g.NEXT_PID
    /\ frames_count' = frames_count
    /\ cr3' = g.cr3
    /\ bitmap' = g.a.bitmap
    /\ next_free_index' = g.a.next
    /\ cpu' = g.cpu
    /\ PIPELINE_STATE' = g.ps
    /\ terminal' = g.terminal
    /\ line' = g.line
    /\ msr' = g.msr
    /\ tty' = g.tty
    /\ disk' = g.disk
    /\ TICKS' = g.TICKS
    /\ polling' = g.polling
    /\ ret' = r

\* The allocator after init_heap took the heap's frames, and the allocator
\* and first switch-stack frame after proc::init, per machine size.
BootAlloc(n) == [bitmap |-> 0 .. (HeapFrames - 1), next |-> HeapFrames, count |-> n]

Boot == [n \in {SmallFrames, NFrames} |-> allocate_switch_stack(BootAlloc(n))]

\* No poll call is waiting.
NoPoll == [active |-> FALSE, fds |-> << >>, start |-> 0, timeout_ms |-> 0]

\* The read of the terminal a process is halted in: n the length of its
\* buffer, i the bytes it has stored so far.
NoRead == [active |-> FALSE, n |-> 0, i |-> 0]

\* memory::init (the heap takes its frames) and proc::init (the console
\* gets a switch stack, PID 1, and starts running).
\* The machine after init(), whatever was last recorded in ret, with the
\* PID counter at next_pid.
BootedAt(next_pid) ==
    \E n \in {SmallFrames, NFrames} :
        /\ frames_count = n
        /\ proc_list = << ConsoleProcess(Boot[n].first) >>
        /\ PID = 1
        /\ NEXT_PID = next_pid
        /\ cr3 = KERNEL_PT
        /\ bitmap = Boot[n].a.bitmap
        /\ next_free_index = Boot[n].a.next
        /\ cpu = [mode |-> "console", rip |-> 0, rsp |-> 0]
        /\ PIPELINE_STATE = NoPipeline
        /\ terminal = << >>
        /\ line = [segments |-> << >>, started |-> 0]
        /\ msr = [fs |-> 0, gs |-> 0, kgs |-> kgs_va, entry |-> kgs_va]
        /\ tty = [input_buffer |-> << >>, read_to_count |-> 0, rd |-> NoRead]
        /\ disk = [size |-> Len(LogData), data |-> LogData]
        /\ TICKS = 0
        /\ polling = NoPoll

Booted == BootedAt(2)

\* Process creation is cut off once the counter, in its first or in its
\* second round, has reached MaxPid.
U16_MAX == 65535

PidsLeft == NEXT_PID < MaxPid \/ NEXT_PID = U16_MAX

Init ==
    /\ Booted
    /\ ret = [op |-> "boot", rax |-> 0, arg |-> 0, arg2 |-> 0, born |-> {}]

Top(g) == g.proc_list[Len(g.proc_list)]

----------------------------------------------------------------------------
(* Exec chain *)

\* What jump_to_user leaves on the CPU.
jump_to_user(entry_point, stack_top) ==
    [mode |-> "user", rip |-> entry_point, rsp |-> stack_top]

\* Process::exec: enter user mode at the process's entry point with its
\* initial stack pointer.
Process_exec(process) == jump_to_user(process.entry_point, process.stack)

\* Process::exec first clears IA32_FS_BASE and IA32_GS_BASE.
exec_msr(msr_) == [msr_ EXCEPT !.fs = 0, !.gs = 0]

\* ProcessTable::run
run(g, process) ==
    [g EXCEPT !.PID = process.pid,
              !.proc_list = Append(g.proc_list, process),
              !.msr = exec_msr(g.msr),
              !.cpu = Process_exec(process)]

Panic(g) == [g EXCEPT !.cpu = [mode |-> "panic", rip |-> 0, rsp |-> 0]]

\* init_console: the console loop starts over and waits for a line.
init_console(g) ==
    [g EXCEPT !.cpu = [mode |-> "console", rip |-> 0, rsp |-> 0], !.terminal = << >>]

\* proc::exit
exit(g) ==
    LET process == Top(g)
        rest == SubSeq(g.proc_list, 1, Len(g.proc_list) - 1)
    IN  Let(get_process(rest, process.parent_pid), LAMBDA pi :
        IF pi = 0
        THEN Panic([g EXCEPT !.proc_list = rest])
        ELSE
        Let([g EXCEPT !.proc_list = rest,
                      !.cr3 = rest[pi].page_table_frame,
                      !.a = cleanup(process, g.cr3, g.a)], LAMBDA g1 :
            IF rest[pi].pid = 1
            THEN init_console(g1)
            ELSE [g1 EXCEPT !.PID = rest[pi].pid, !.msr = exec_msr(g1.msr),
                            !.cpu = Process_exec(rest[pi])]))

\* The exit system call: SWAPGS, then proc::exit.
sys_exit(g) == exit(swapgs(g))

----------------------------------------------------------------------------
(* Kernel console *)

Cmds == {"hello", "dyn", "noint", "bad", "nocmd"}
CmdLines == { <<c>> : c \in Cmds } \cup { <<c, d>> : c \in {"hello", "bad", "nocmd"}, d \in {"hello"} }
BinPath(cmd) == "/bin/" \o cmd
ArgvOf(cmd) == << cmd >>

\* console::exec for a command that is not built in.  Control comes back
\* to the caller only when no process was started.
exec(g, cmd) ==
    Let(vfs_open(BinPath(cmd)), LAMBDA node :
    IF node.kind = "none" THEN g
    ELSE
    Let(Process_new(node.elf, RootDir, ArgvOf(cmd), 1, g.a, g.cr3, g.NEXT_PID), LAMBDA r :
    Let([g EXCEPT !.a = r.a, !.cr3 = r.cr3, !.NEXT_PID = r.next_pid], LAMBDA g1 :
        IF r.res = "ok" THEN run(g1, r.proc)
        ELSE IF r.res = "panic" THEN Panic(g1)
        ELSE g1)))

start_pipeline_stage(g, has_input, input, capture_output) ==
    IF ~capture_output /\ ~has_input
    THEN [g EXCEPT !.ps = NoPipeline]
    ELSE [g EXCEPT !.ps = [some |-> TRUE, has_input |-> has_input, input |-> input,
                           capture_output |-> capture_output, output |-> << >>]]

\* finish_pipeline_stage: the stage is taken; out is its output when it
\* was capturing.
finish_pipeline_stage(g) ==
    [g |-> [g EXCEPT !.ps = NoPipeline],
     some |-> g.ps.some /\ g.ps.capture_output,
     out |-> IF g.ps.some /\ g.ps.capture_output THEN g.ps.output ELSE << >>]

RECURSIVE run_stages(_, _, _, _, _)
run_stages(g, segments, idx, has_pending, pending) ==
    IF idx > Len(segments) THEN g
    ELSE LET capture_output == idx < Len(segments)
         IN  Let(exec([start_pipeline_stage(g, has_pending, pending, capture_output)
                         EXCEPT !.line.started = idx], segments[idx]), LAMBDA g2 :
             IF g2.cpu.mode # "console" THEN g2
             ELSE Let(finish_pipeline_stage(g2), LAMBDA f :
                  run_stages(f.g, segments, idx + 1, capture_output,
                             IF capture_output THEN f.out ELSE << >>)))

execute_command_line(g, segments) ==
    LET g0 == [g EXCEPT !.line = [segments |-> segments, started |-> 0]]
    IN  IF Len(segments) = 1
        THEN exec([g0 EXCEPT !.line.started = 1], segments[1])
        ELSE run_stages(g0, segments, 1, FALSE, << >>)

\* pipeline_read: some is FALSE when no input is installed.
pipeline_read(g, n) ==
    IF ~g.ps.some \/ ~g.ps.has_input
    THEN [some |-> FALSE, bytes |-> << >>, g |-> g]
    ELSE LET k == Min(n, Len(g.ps.input))
         IN  [some |-> TRUE, bytes |-> SubSeq(g.ps.input, 1, k),
              g |-> [g EXCEPT !.ps.input = SubSeq(@, k + 1, Len(@))]]

\* pipeline_write: ok is FALSE when nothing is capturing.
pipeline_write(g, data) ==
    IF g.ps.some /\ g.ps.capture_output
    THEN [ok |-> TRUE, g |-> [g EXCEPT !.ps.output = @ \o data]]
    ELSE [ok |-> FALSE, g |-> g]

----------------------------------------------------------------------------
(* System calls.  Each handler takes the state g and yields [g, rax]; the  *)
(* process it works on is the one get_process finds for the PID register.  *)

Cur(g) == get_process(g.proc_list, g.PID)

MemOf(g, pi) == [bitmap |-> g.a.bitmap, next |-> g.a.next, count |-> g.a.count,
                 map |-> g.proc_list[pi].map, tables |-> g.proc_list[pi].tables]

\* Write a memory state back: the allocator and process pi's page table.
WithMem(g, pi, m) ==
    [g EXCEPT !.a = AllocOf(m), !.proc_list[pi].map = m.map,
              !.proc_list[pi].tables = m.tables]

\* An fd table slot: None, or Some(FdEntry) whose file is the index of the
\* shared OpenFile in the process's files.
NoneFd == [some |-> FALSE, file |-> 0, fd_flags |-> 0]

FdEntry(tbl, fd) ==
    IF fd >= 3 /\ fd - 3 < Len(tbl) THEN tbl[fd - 2] ELSE NoneFd

\* fd_slot: the entry of an open descriptor, or -EBADF.
fd_slot(process, fd) ==
    IF fd < 3 THEN [ok |-> FALSE, code |-> EBADF, entry |-> NoneFd]
    ELSE IF FdEntry(process.fd_table, fd).some
    THEN [ok |-> TRUE, code |-> 0, entry |-> FdEntry(process.fd_table, fd)]
    ELSE [ok |-> FALSE, code |-> EBADF, entry |-> NoneFd]

\* The node type behind an open descriptor ("" when fd is not open).
NodeKind(process, fd) ==
    IF FdEntry(process.fd_table, fd).some
    THEN process.files[FdEntry(process.fd_table, fd).file].kind
    ELSE ""

\* The framebuffer node's mmap; every other node refuses with -38.
node_mmap(kind, m, addr, len, shared, offset) ==
    IF kind # "fb" THEN [rax |-> ENOSYS, m |-> m]
    ELSE IF offset # 0 THEN [rax |-> EINVAL, m |-> m]
    ELSE IF ~shared THEN [rax |-> ENOSYS, m |-> m]
    ELSE IF len = 0 \/ len > shared_mem_len THEN [rax |-> EINVAL, m |-> m]
    ELSE Let(map_kernel_buffer(m, 0, len, addr), LAMBDA r :
             IF r.ok THEN [rax |-> addr, m |-> r.m] ELSE [rax |-> ENOMEM, m |-> r.m])

mmap(g, addr, size, flags, fd, offset) ==
    LET len == align_up(size, PAGE)
        is_file_backed == ~flags.anon /\ fd # (0 - 1)
    IN
    Let(Cur(g), LAMBDA pi :
    IF pi = 0 THEN [g |-> g, rax |-> ESRCH]
    ELSE IF size = 0 THEN [g |-> g, rax |-> EINVAL]
    ELSE IF offset % PAGE # 0 THEN [g |-> g, rax |-> EINVAL]
    ELSE IF flags.fixed /\ (addr = 0 \/ addr % PAGE # 0) THEN [g |-> g, rax |-> EINVAL]
    ELSE
    \* rs: the address va (base) and the cursors after it was chosen.
    Let(IF flags.fixed THEN [base |-> addr, mm |-> g.proc_list[pi].mm]
        ELSE reserve_mmap_range(g.proc_list[pi].mm, len), LAMBDA rs :
    Let([g EXCEPT !.proc_list[pi].mm = rs.mm], LAMBDA g1 :
    IF rs.base = 0 - 1 THEN [g |-> g1, rax |-> ENOMEM]
    ELSE IF rs.base = 0 THEN [g |-> g1, rax |-> EINVAL]
    ELSE IF is_file_backed
    THEN Let(FdEntry(g.proc_list[pi].fd_table, fd), LAMBDA entry :
         IF fd < 3 \/ ~entry.some THEN [g |-> g1, rax |-> EBADF]
         ELSE Let(node_mmap(NodeKind(g.proc_list[pi], fd), MemOf(g1, pi), rs.base, len,
                            flags.shared, offset),
                  LAMBDA nm :
              IF nm.rax # rs.base THEN [g |-> WithMem(g1, pi, nm.m), rax |-> nm.rax]
              ELSE [g |-> [WithMem(g1, pi, nm.m) EXCEPT
                             !.proc_list[pi].mm = track_mmap(rs.mm, rs.base, len, "Shared")],
                    rax |-> rs.base]))
    ELSE Let(alloc_pages(MemOf(g1, pi), rs.base, len), LAMBDA al :
         IF ~al.ok THEN [g |-> WithMem(g1, pi, al.m), rax |-> ENOMEM]
         ELSE [g |-> [WithMem(g1, pi, al.m) EXCEPT
                        !.proc_list[pi].mm = track_mmap(rs.mm, rs.base, len, "Owned")],
               rax |-> rs.base]))))

brk(g, addr) ==
    Let(Cur(g), LAMBDA pi :
    IF pi = 0 THEN [g |-> g, rax |-> ESRCH]
    ELSE IF addr = 0 THEN [g |-> g, rax |-> g.proc_list[pi].mm.brk_cur]
    ELSE Let(set_brk(g.proc_list[pi].mm, MemOf(g, pi), addr), LAMBDA r :
         [g |-> [WithMem(g, pi, r.m) EXCEPT !.proc_list[pi].mm = r.mm],
          rax |-> IF r.ok THEN r.brk ELSE r.mm.brk_cur]))

munmap(g, addr, size) ==
    LET len == align_up(size, PAGE)
    IN
    Let(Cur(g), LAMBDA pi :
    IF pi = 0 THEN [g |-> g, rax |-> 0 - 1]
    ELSE IF size = 0 THEN [g |-> g, rax |-> EINVAL]
    ELSE IF addr % PAGE # 0 THEN [g |-> g, rax |-> EINVAL]
    ELSE
    Let(remove_mmap(g.proc_list[pi].mm, addr, len), LAMBDA rm :
    IF rm.kind = "None" THEN [g |-> g, rax |-> EINVAL]
    ELSE
    Let([g EXCEPT !.proc_list[pi].mm = rm.mm], LAMBDA g1 :
    Let(IF rm.kind = "Owned" THEN dealloc_pages(MemOf(g1, pi), addr, len)
        ELSE unmap_user_pages(MemOf(g1, pi), addr, len), LAMBDA r :
        [g |-> WithMem(g1, pi, r.m), rax |-> IF r.ok THEN 0 ELSE 0 - 1]))))

\* A path is kept split at its slashes: "/bin/hello" is <<"", "bin",
\* "hello">>, "/" is <<"", "">> and the empty string is <<"">>.
starts_with_slash(p) == Len(p) >= 2 /\ p[1] = ""

RECURSIVE trim_end_slashes(_)
trim_end_slashes(p) ==
    IF Len(p) >= 2 /\ p[Len(p)] = "" THEN trim_end_slashes(SubSeq(p, 1, Len(p) - 1)) ELSE p

join_paths(base, rel) ==
    IF rel = <<"">> \/ rel = <<".">> THEN base
    ELSE IF starts_with_slash(rel) THEN rel
    ELSE IF base = RootDir THEN <<"">> \o rel
    ELSE trim_end_slashes(base) \o rel

RECURSIVE normalize_segments(_, _, _)
normalize_segments(p, i, out) ==
    IF i > Len(p) THEN out
    ELSE IF p[i] = "" \/ p[i] = "." THEN normalize_segments(p, i + 1, out)
    ELSE IF p[i] = ".."
    THEN normalize_segments(p, i + 1, SubSeq(out, 1, Len(out) - 1))
    ELSE normalize_segments(p, i + 1, Append(out, p[i]))

normalize_path(p) ==
    LET out == normalize_segments(p, 1, << >>)
    IN  IF out = << >> THEN RootDir ELSE <<"">> \o out

\* The string a split path stands for.
RECURSIVE PathString(_)
PathString(p) ==
    IF Len(p) = 1 THEN p[1]
    ELSE PathString(SubSeq(p, 1, Len(p) - 1)) \o "/" \o p[Len(p)]

status_flags_from_open(flags) ==
    MaskAnd(flags, {O_WRONLY, O_RDWR}) + MaskAnd(flags, {O_APPEND, O_NONBLOCK, O_DIRECTORY, O_PATH})

\* An install_fd_entry that never reuses a slot: the entry always goes to
\* the end of the table.
install_fd_entry_at_end(tbl, entry, min_fd) ==
    LET start_idx == Max(min_fd - 3, 0)
        pad == [i \in 1 .. Max(start_idx - Len(tbl), 0) |-> NoneFd]
    IN  IF min_fd < 0 THEN [tbl |-> tbl, fd |-> EINVAL]
        ELSE [tbl |-> Append(tbl \o pad, entry), fd |-> Len(tbl \o pad) + 3]

\* install_fd_entry: the table after the entry went into the first free
\* slot at or after min_fd, and the descriptor it got (the negated error
\* when min_fd is negative).
install_fd_entry(tbl, entry, min_fd) ==
    LET start_idx == Max(min_fd - 3, 0)
        free == { i \in (start_idx + 1) .. Len(tbl) : ~tbl[i].some }
        first == CHOOSE i \in free : \A j \in free : i <= j
        pad == [i \in 1 .. Max(start_idx - Len(tbl), 0) |-> NoneFd]
    IN  IF min_fd < 0 THEN [tbl |-> tbl, fd |-> EINVAL]
        ELSE IF free # {}
        THEN [tbl |-> [tbl EXCEPT ![first] = entry], fd |-> first + 2]
        ELSE [tbl |-> Append(tbl \o pad, entry), fd |-> Len(tbl \o pad) + 3]

\* base_for_dirfd: the directory a relative path starts from.
base_for_dirfd(process, dirfd) ==
    IF dirfd = AT_FDCWD THEN [ok |-> TRUE, code |-> 0, base |-> process.pwd]
    ELSE IF dirfd < 3 THEN [ok |-> FALSE, code |-> EBADF, base |-> << >>]
    ELSE IF ~fd_slot(process, dirfd).ok
    THEN [ok |-> FALSE, code |-> fd_slot(process, dirfd).code, base |-> << >>]
    ELSE IF NodeKind(process, dirfd) # "dir"
    THEN [ok |-> FALSE, code |-> 0 - ENOTDIR, base |-> << >>]
    ELSE [ok |-> TRUE, code |-> 0,
          base |-> process.files[fd_slot(process, dirfd).entry.file].path]

\* openat for flags without O_CREAT.
openat(g, dirfd, path, flags) ==
    Let(Cur(g), LAMBDA pi :
    IF pi = 0 THEN [g |-> g, rax |-> ESRCH]
    ELSE
    Let(base_for_dirfd(g.proc_list[pi], dirfd), LAMBDA b :
    IF ~starts_with_slash(path) /\ ~b.ok THEN [g |-> g, rax |-> b.code]
    ELSE
    Let(IF starts_with_slash(path) THEN normalize_path(path)
        ELSE normalize_path(join_paths(b.base, path)), LAMBDA full_path :
    Let(RimmyFs_open(g, PathString(full_path)), LAMBDA node :
    IF node.kind = "none" THEN [g |-> g, rax |-> 0 - ENOENT]
    ELSE IF BitAnd(flags, O_DIRECTORY) # 0 /\ node.kind # "dir"
    THEN [g |-> g, rax |-> 0 - ENOTDIR]
    ELSE IF node.kind = "dir" /\ MaskAnd(flags, {O_WRONLY, O_RDWR}) \in {O_WRONLY, O_RDWR}
    THEN [g |-> g, rax |-> 0 - EISDIR]
    ELSE
    Let([kind |-> node.kind, path |-> full_path,
         seek |-> IF node.kind = "file" /\ BitAnd(flags, O_APPEND) # 0 THEN node.size ELSE 0,
         status_flags |-> status_flags_from_open(flags), live |-> TRUE,
         size |-> node.size, inode_size |-> node.size, emitted |-> << >>],
        LAMBDA open_file :
    Let(install_fd_entry(g.proc_list[pi].fd_table,
                         [some |-> TRUE, file |-> Len(g.proc_list[pi].files) + 1,
                          fd_flags |-> IF BitAnd(flags, O_CLOEXEC) # 0 THEN FD_CLOEXEC ELSE 0],
                         3), LAMBDA r :
        [g |-> [g EXCEPT !.proc_list[pi].fd_table = r.tbl,
                         !.proc_list[pi].files = Append(@, open_file)],
         rax |-> r.fd]))))))

open(g, path, flags) == openat(g, AT_FDCWD, path, flags)

\* Dropping the references a table no longer holds: the node of an
\* OpenFile is released with its last descriptor.
Release(files, tbl) ==
    [id \in 1 .. Len(files) |->
        [files[id] EXCEPT !.live = @ /\ \E i \in 1 .. Len(tbl) : tbl[i].some /\ tbl[i].file = id]]

\* A close that reports success and leaves the slot occupied.
close_keeps_slot(g, fd) ==
    Let(Cur(g), LAMBDA pi :
    IF fd < 0 THEN [g |-> g, rax |-> EBADF]
    ELSE IF fd <= 2 THEN [g |-> g, rax |-> 0]
    ELSE IF pi = 0 THEN [g |-> g, rax |-> ESRCH]
    ELSE IF FdEntry(g.proc_list[pi].fd_table, fd).some
    THEN [g |-> g, rax |-> 0]
    ELSE [g |-> g, rax |-> EBADF])

close(g, fd) ==
    Let(Cur(g), LAMBDA pi :
    IF fd < 0 THEN [g |-> g, rax |-> EBADF]
    ELSE IF fd <= 2 THEN [g |-> g, rax |-> 0]
    ELSE IF pi = 0 THEN [g |-> g, rax |-> ESRCH]
    ELSE IF FdEntry(g.proc_list[pi].fd_table, fd).some
    THEN Let([g.proc_list[pi].fd_table EXCEPT ![fd - 2] = NoneFd], LAMBDA tbl :
             [g |-> [g EXCEPT !.proc_list[pi].fd_table = tbl,
                              !.proc_list[pi].files = Release(@, tbl)],
              rax |-> 0])
    ELSE [g |-> g, rax |-> EBADF])

I32_MAX == 2147483647
\* A mutable mask that also lets the write bit of the access mode through.
STATUS_FLAG_MUTABLE_with_wronly == {O_APPEND, O_NONBLOCK, O_WRONLY}

STATUS_FLAG_MUTABLE == {O_APPEND, O_NONBLOCK}

\* An fcntl whose F_DUPFD gives the new descriptor an OpenFile of its own,
\* a copy of the source's.
fcntl_dup_copies(g, fd, cmd, arg) ==
    Let(Cur(g), LAMBDA pi :
    IF fd < 0 THEN [g |-> g, rax |-> EBADF]
    ELSE IF pi = 0 THEN [g |-> g, rax |-> ESRCH]
    ELSE
    Let(g.proc_list[pi], LAMBDA process :
    Let(fd_slot(process, fd), LAMBDA slot :
    CASE cmd = F_GETFD ->
           IF fd <= 2 THEN [g |-> g, rax |-> process.stdio_fd_flags[fd + 1]]
           ELSE IF slot.ok THEN [g |-> g, rax |-> slot.entry.fd_flags]
           ELSE [g |-> g, rax |-> slot.code]
      [] cmd = F_SETFD ->
           IF fd <= 2
           THEN [g |-> [g EXCEPT !.proc_list[pi].stdio_fd_flags[fd + 1] =
                                    BitAnd(arg, FD_CLOEXEC)],
                 rax |-> 0]
           ELSE IF slot.ok
           THEN [g |-> [g EXCEPT !.proc_list[pi].fd_table[fd - 2].fd_flags =
                                    (@ - BitAnd(@, FD_CLOEXEC)) + BitAnd(arg, FD_CLOEXEC)],
                 rax |-> 0]
           ELSE [g |-> g, rax |-> slot.code]
      [] cmd = F_GETFL ->
           IF fd <= 2 THEN [g |-> g, rax |-> process.stdio_flags[fd + 1]]
           ELSE IF slot.ok THEN [g |-> g, rax |-> process.files[slot.entry.file].status_flags]
           ELSE [g |-> g, rax |-> slot.code]
      [] cmd = F_SETFL ->
           IF fd <= 2
           THEN [g |-> [g EXCEPT !.proc_list[pi].stdio_flags[fd + 1] =
                                    (@ - MaskAnd(@, STATUS_FLAG_MUTABLE))
                                        + MaskAnd(arg, STATUS_FLAG_MUTABLE)],
                 rax |-> 0]
           ELSE IF slot.ok
           THEN [g |-> [g EXCEPT !.proc_list[pi].files[slot.entry.file].status_flags =
                                    (@ - MaskAnd(@, STATUS_FLAG_MUTABLE))
                                        + MaskAnd(arg, STATUS_FLAG_MUTABLE)],
                 rax |-> 0]
           ELSE [g |-> g, rax |-> slot.code]
      [] cmd = F_DUPFD ->
           IF fd <= 2 THEN [g |-> g, rax |-> EBADF]
           ELSE IF arg > I32_MAX THEN [g |-> g, rax |-> EINVAL]
           ELSE IF ~slot.ok THEN [g |-> g, rax |-> slot.code]
           ELSE Let(install_fd_entry(process.fd_table,
                                     [slot.entry EXCEPT !.fd_flags = @ - BitAnd(@, FD_CLOEXEC),
                                                        !.file = Len(process.files) + 1],
                                     Max(arg, 3)), LAMBDA r :
                    [g |-> [g EXCEPT !.proc_list[pi].fd_table = r.tbl,
                                     !.proc_list[pi].files =
                                        Append(@, process.files[slot.entry.file])],
                     rax |-> r.fd])
      [] OTHER -> [g |-> g, rax |-> EINVAL])))

\* fcntl
fcntl(g, fd, cmd, arg) ==
    Let(Cur(g), LAMBDA pi :
    IF fd < 0 THEN [g |-> g, rax |-> EBADF]
    ELSE IF pi = 0 THEN [g |-> g, rax |-> ESRCH]
    ELSE
    Let(g.proc_list[pi], LAMBDA process :
    Let(fd_slot(process, fd), LAMBDA slot :
    CASE cmd = F_GETFD ->
           IF fd <= 2 THEN [g |-> g, rax |-> process.stdio_fd_flags[fd + 1]]
           ELSE IF slot.ok THEN [g |-> g, rax |-> slot.entry.fd_flags]
           ELSE [g |-> g, rax |-> slot.code]
      [] cmd = F_SETFD ->
           IF fd <= 2
           THEN [g |-> [g EXCEPT !.proc_list[pi].stdio_fd_flags[fd + 1] =
                                    BitAnd(arg, FD_CLOEXEC)],
                 rax |-> 0]
           ELSE IF slot.ok
           THEN [g |-> [g EXCEPT !.proc_list[pi].fd_table[fd - 2].fd_flags =
                                    (@ - BitAnd(@, FD_CLOEXEC)) + BitAnd(arg, FD_CLOEXEC)],
                 rax |-> 0]
           ELSE [g |-> g, rax |-> slot.code]
      [] cmd = F_GETFL ->
           IF fd <= 2 THEN [g |-> g, rax |-> process.stdio_flags[fd + 1]]
           ELSE IF slot.ok THEN [g |-> g, rax |-> process.files[slot.entry.file].status_flags]
           ELSE [g |-> g, rax |-> slot.code]
      [] cmd = F_SETFL ->
           IF fd <= 2
           THEN [g |-> [g EXCEPT !.proc_list[pi].stdio_flags[fd + 1] =
                                    (@ - MaskAnd(@, STATUS_FLAG_MUTABLE))
                                        + MaskAnd(arg, STATUS_FLAG_MUTABLE)],
                 rax |-> 0]
           ELSE IF slot.ok
           THEN [g |-> [g EXCEPT !.proc_list[pi].files[slot.entry.file].status_flags =
                                    (@ - MaskAnd(@, STATUS_FLAG_MUTABLE))
                                        + MaskAnd(arg, STATUS_FLAG_MUTABLE)],
                 rax |-> 0]
           ELSE [g |-> g, rax |-> slot.code]
      [] cmd = F_DUPFD ->
           IF fd <= 2 THEN [g |-> g, rax |-> EBADF]
           ELSE IF arg > I32_MAX THEN [g |-> g, rax |-> EINVAL]
           ELSE IF ~slot.ok THEN [g |-> g, rax |-> slot.code]
           ELSE Let(install_fd_entry(process.fd_table,
                                     [slot.entry EXCEPT !.fd_flags = @ - BitAnd(@, FD_CLOEXEC)],
                                     Max(arg, 3)), LAMBDA r :
                    [g |-> [g EXCEPT !.proc_list[pi].fd_table = r.tbl], rax |-> r.fd])
      [] OTHER -> [g |-> g, rax |-> EINVAL])))

\* lseek; the handler unwraps the current process.
lseek(g, fd, offset, whence) ==
    Let(Cur(g), LAMBDA pi :
    IF pi = 0 THEN [g |-> Panic(g), rax |-> 0]
    ELSE IF fd < 3 THEN [g |-> g, rax |-> EBADF]
    ELSE
    Let(fd_slot(g.proc_list[pi], fd), LAMBDA slot :
    IF ~slot.ok THEN [g |-> g, rax |-> slot.code]
    ELSE
    Let(g.proc_list[pi].files[slot.entry.file], LAMBDA file :
    CASE whence = 0 ->
           [g |-> [g EXCEPT !.proc_list[pi].files[slot.entry.file].seek = offset],
            rax |-> offset]
      [] whence = 1 -> [g |-> g, rax |-> file.seek]
      [] whence = 2 ->
           [g |-> [g EXCEPT !.proc_list[pi].files[slot.entry.file].seek = file.size],
            rax |-> file.size]
      [] OTHER -> [g |-> g, rax |-> EINVAL])))

\* The dispatcher's SYS_LSEEK arm: the third argument register is cut to
\* its low byte before lseek sees it.
U8 == 256

SYS_LSEEK(g, arg1, arg2, arg3) == lseek(g, arg1, arg2, arg3 % U8)

\* write: fd 1 is captured by the pipeline stage, else shown; fd 2 is
\* shown; any other descriptor writes its node at the cursor, which
\* O_APPEND first moves to the size in the node's metadata.  The only node
\* written in the model is the data file.
write(g, fd, data) ==
    IF fd = 1
    THEN Let(pipeline_write(g, data), LAMBDA w :
             IF w.ok THEN [g |-> w.g, rax |-> Len(data)]
             ELSE [g |-> [g EXCEPT !.terminal = @ \o data], rax |-> Len(data)])
    ELSE IF fd = 2 THEN [g |-> [g EXCEPT !.terminal = @ \o data], rax |-> Len(data)]
    ELSE
    Let(Cur(g), LAMBDA pi :
    IF pi = 0 THEN [g |-> Panic(g), rax |-> 0]
    ELSE
    Let(fd_slot(g.proc_list[pi], fd), LAMBDA slot :
    IF ~slot.ok THEN [g |-> g, rax |-> slot.code]
    ELSE
    Let(g.proc_list[pi].files[slot.entry.file], LAMBDA file :
    IF file.status_flags % (O_ACCMODE + 1) = O_RDONLY THEN [g |-> g, rax |-> EBADF]
    ELSE
    Let(IF BitAnd(file.status_flags, O_APPEND) # 0 THEN file.size ELSE file.seek, LAMBDA at :
        [g |-> [g EXCEPT !.proc_list[pi].files[slot.entry.file].seek = at + Len(data),
                         !.proc_list[pi].files[slot.entry.file].inode_size = at + Len(data),
                         !.disk = TFSVfsNode_write(@, at, data)],
         rax |-> Len(data)]))))

\* The descriptors whose write the model covers: the ones write refuses and
\* the ones of the data file.
WritesDataFile(p, fd) ==
    IF ~fd_slot(p, fd).ok THEN TRUE
    ELSE \/ p.files[fd_slot(p, fd).entry.file].status_flags % (O_ACCMODE + 1) = O_RDONLY
         \/ PathString(p.files[fd_slot(p, fd).entry.file].path) = LogPath

\* VFS.ls: the entries of a directory, in the order the file system keeps them.
ls(path) ==
    CASE path = "/bin" -> << [name |-> ".", ino |-> 2, dtype |-> DT_DIR],
                             [name |-> "..", ino |-> 1, dtype |-> DT_DIR],
                             [name |-> "hello", ino |-> 3, dtype |-> DT_REG],
                             [name |-> "dyn", ino |-> 4, dtype |-> DT_REG],
                             [name |-> "noint", ino |-> 5, dtype |-> DT_REG],
                             [name |-> "bad", ino |-> 6, dtype |-> DT_REG],
                             [name |-> "stat", ino |-> 7, dtype |-> DT_REG],
                             [name |-> "noph", ino |-> 8, dtype |-> DT_REG] >>
      [] OTHER -> << >>

\* dirent64_reclen: header, name and NUL, rounded up to 8 bytes.
dirent64_reclen_unaligned(name_len) == DIRENT64_HDR + name_len + 1

dirent64_reclen(name_len) == ((DIRENT64_HDR + name_len + 1 + 7) \div 8) * 8

\* The records of the entries from index i on (counted from 0) that fit
\* into buf_len bytes after total_needed bytes.
RECURSIVE dirent_items(_, _, _, _)
dirent_items(entries, i, total_needed, buf_len) ==
    IF i >= Len(entries) THEN << >>
    ELSE LET e == entries[i + 1]
             reclen == dirent64_reclen(Len(e.name))
         IN  IF total_needed + reclen > buf_len THEN << >>
             ELSE << [d_ino |-> e.ino, d_off |-> i + 1, d_reclen |-> reclen,
                      d_type |-> e.dtype, d_name |-> e.name] >>
                  \o dirent_items(entries, i + 1, total_needed + reclen, buf_len)

RECURSIVE SumReclen(_)
SumReclen(items) == IF items = << >> THEN 0 ELSE Head(items).d_reclen + SumReclen(Tail(items))

\* getdent64: out the records stored in the user's buffer.
getdent64(g, fd, user_buf, buf_len) ==
    IF user_buf = 0 THEN [g |-> g, rax |-> 0 - EFAULT, out |-> << >>]
    ELSE IF buf_len < DIRENT64_HDR + 2 THEN [g |-> g, rax |-> EINVAL, out |-> << >>]
    ELSE
    Let(Cur(g), LAMBDA pi :
    IF pi = 0 THEN [g |-> g, rax |-> ESRCH, out |-> << >>]
    ELSE
    Let(fd_slot(g.proc_list[pi], fd), LAMBDA slot :
    IF ~slot.ok THEN [g |-> g, rax |-> slot.code, out |-> << >>]
    ELSE
    Let(g.proc_list[pi].files[slot.entry.file], LAMBDA file :
    IF file.kind # "dir" THEN [g |-> g, rax |-> 0 - ENOTDIR, out |-> << >>]
    ELSE
    Let(ls(PathString(file.path)), LAMBDA entries :
    IF file.seek >= Len(entries) THEN [g |-> g, rax |-> 0, out |-> << >>]
    ELSE
    Let(dirent_items(entries, file.seek, 0, buf_len), LAMBDA items :
    IF items = << >> THEN [g |-> g, rax |-> 0, out |-> << >>]
    ELSE [g |-> [g EXCEPT !.proc_list[pi].files[slot.entry.file] =
                            [@ EXCEPT !.seek = @ + Len(items),
                                      !.emitted = @ \o [k \in 1 .. Len(items) |->
                                                           items[k].d_name]]],
          rax |-> SumReclen(items), out |-> items])))))

\* Tty::read in cooked mode, from the state of its loop on (i bytes
\* stored in a buffer of n): it takes queued keys until the buffer is full
\* or a newline came, and halts when the queue is empty.  The keys of the
\* model are printable characters and the newline.
NEWLINE == 10
RECURSIVE Tty_read(_, _, _)
Tty_read(t, n, i) ==
    IF t.input_buffer = << >>
    THEN [halted |-> TRUE, rax |-> 0, t |-> [t EXCEPT !.rd = [active |-> TRUE, n |-> n, i |-> i]]]
    ELSE LET c == Head(t.input_buffer)
             t1 == [t EXCEPT !.input_buffer = Tail(@), !.rd = NoRead,
                             !.read_to_count = IF c = NEWLINE THEN 0 ELSE @ + 1]
         IN  IF c = NEWLINE \/ i + 1 >= n
             THEN [halted |-> FALSE, rax |-> IF n = i + 1 THEN i + 1 ELSE i + 2, t |-> t1]
             ELSE Tty_read(t1, n, i + 1)

\* read of a descriptor of the table: a regular file gives the bytes
\* between the cursor and the size its node's inode has, n at most.
read_open_file(g, pi, fd, n) ==
    Let(fd_slot(g.proc_list[pi], fd), LAMBDA slot :
    IF ~slot.ok THEN [g |-> g, rax |-> slot.code, halted |-> FALSE]
    ELSE
    Let(g.proc_list[pi].files[slot.entry.file], LAMBDA file :
    IF file.status_flags % (O_ACCMODE + 1) = O_WRONLY
    THEN [g |-> g, rax |-> EBADF, halted |-> FALSE]
    ELSE IF file.kind = "dir" THEN [g |-> g, rax |-> 0 - EISDIR, halted |-> FALSE]
    ELSE
    Let(IF file.seek >= file.inode_size THEN 0 ELSE Min(file.inode_size - file.seek, n),
        LAMBDA copy_len :
        [g |-> [g EXCEPT !.proc_list[pi].files[slot.entry.file].seek = @ + copy_len],
         rax |-> copy_len, halted |-> FALSE])))

\* read: fd 0 reads the pipeline or the terminal, fds 1 and 2 read
\* nothing, any other descriptor reads its node.  halted tells that the
\* call sits in halt() inside Tty::read.
read(g, fd, n) ==
    Let(Cur(g), LAMBDA pi :
    IF pi = 0 THEN [g |-> Panic(g), rax |-> 0, halted |-> FALSE]
    ELSE IF fd > 2 THEN read_open_file(g, pi, fd, n)
    ELSE IF fd # 0 THEN [g |-> g, rax |-> 0, halted |-> FALSE]
    ELSE
    Let(pipeline_read(g, n), LAMBDA pr :
    IF pr.some THEN [g |-> pr.g, rax |-> Len(pr.bytes), halted |-> FALSE]
    ELSE IF BitAnd(g.proc_list[pi].stdio_flags[1], O_NONBLOCK) # 0
            /\ g.tty.input_buffer = << >>
    THEN [g |-> g, rax |-> 0 - EAGAIN, halted |-> FALSE]
    ELSE Let(Tty_read(g.tty, n, 0), LAMBDA r :
             [g |-> [g EXCEPT !.tty = r.t], rax |-> r.rax, halted |-> r.halted])))

\* `(r as usize) < iov_len`: a negative result is a huge unsigned number.
ShortOf(r, iov_len) == r >= 0 /\ r < iov_len

\* writev from segment k on: rs the results of the segments written.
RECURSIVE writev_from(_, _, _, _, _, _)
writev_from(g, fd, iov, k, total, rs) ==
    IF k > Len(iov) THEN [g |-> g, rax |-> total, rs |-> rs]
    ELSE IF Len(iov[k]) = 0 THEN writev_from(g, fd, iov, k + 1, total, rs)
    ELSE Let(write(g, fd, iov[k]), LAMBDA r :
             IF ShortOf(r.rax, Len(iov[k]))
             THEN [g |-> r.g, rax |-> total + r.rax, rs |-> Append(rs, r.rax)]
             ELSE writev_from(r.g, fd, iov, k + 1, total + r.rax, Append(rs, r.rax)))

writev(g, fd, iov, iovcnt) ==
    IF iovcnt < 0 THEN [g |-> g, rax |-> 0 - 1, rs |-> << >>]
    ELSE writev_from(g, fd, SubSeq(iov, 1, iovcnt), 1, 0, << >>)

\* readv from segment k on, the segments given by their lengths.
RECURSIVE readv_from(_, _, _, _, _, _)
readv_from(g, fd, iov, k, total, rs) ==
    IF k > Len(iov) THEN [g |-> g, rax |-> total, rs |-> rs]
    ELSE IF iov[k] = 0 THEN readv_from(g, fd, iov, k + 1, total, rs)
    ELSE Let(read(g, fd, iov[k]), LAMBDA r :
             IF ShortOf(r.rax, iov[k])
             THEN [g |-> r.g, rax |-> total + r.rax, rs |-> Append(rs, r.rax)]
             ELSE readv_from(r.g, fd, iov, k + 1, total + r.rax, Append(rs, r.rax)))

readv(g, fd, iov, iov_count) == readv_from(g, fd, SubSeq(iov, 1, iov_count), 1, 0, << >>)

\* uptime(), in microseconds: the PIT ticks about every 54.9 ms.
uptime(ticks) == ticks * TICK_US

\* A scan that stores no revents and counts every entry.
poll_fd_set_counts_all(g, process, fds, k, revents, ready_count) ==
    [revents |-> [i \in 1 .. Len(fds) |-> 0], ready_count |-> Len(fds)]

\* poll_fd_set from entry k on: the revents stored and the entries counted.
RECURSIVE poll_fd_set(_, _, _, _, _, _)
poll_fd_set(g, process, fds, k, revents, ready_count) ==
    IF k > Len(fds) THEN [revents |-> revents, ready_count |-> ready_count]
    ELSE
    LET fd == fds[k].fd
        want_in == BitAnd(fds[k].events, POLLIN) # 0
        want_out == BitAnd(fds[k].events, POLLOUT) # 0
        out == IF want_out THEN POLLOUT ELSE 0
        rv == CASE fd < 0 -> 0
                [] fd = 0 -> (IF want_in /\ g.tty.input_buffer # << >> THEN POLLIN ELSE 0) + out
                [] fd \in {1, 2} -> out
                [] OTHER -> IF ~fd_slot(process, fd).ok THEN POLLNVAL
                            ELSE (IF want_in THEN POLLIN ELSE 0) + out
    IN  poll_fd_set(g, process, fds, k + 1, Append(revents, rv),
                    IF rv # 0 THEN ready_count + 1 ELSE ready_count)

\* The loop of poll from its top: back in halt() (halted), or returned.
poll_loop(g, pl) ==
    IF pl.timeout_ms > 0 /\ uptime(g.TICKS) >= pl.start + pl.timeout_ms * 1000
    THEN [g |-> [g EXCEPT !.polling = NoPoll], rax |-> 0, halted |-> FALSE,
          revents |-> [k \in 1 .. Len(pl.fds) |-> 0]]
    ELSE [g |-> [g EXCEPT !.polling = pl], rax |-> 0, halted |-> TRUE,
          revents |-> [k \in 1 .. Len(pl.fds) |-> 0]]

\* poll: fds the entries of the user's array, fds_ptr its address.
poll(g, fds_ptr, fds, timeout_ms) ==
    IF Len(fds) = 0 THEN [g |-> g, rax |-> 0, halted |-> FALSE, revents |-> << >>]
    ELSE IF fds_ptr = 0 THEN [g |-> g, rax |-> 0 - EFAULT, halted |-> FALSE, revents |-> << >>]
    ELSE
    Let(Cur(g), LAMBDA pi :
    IF pi = 0 THEN [g |-> g, rax |-> ESRCH, halted |-> FALSE, revents |-> << >>]
    ELSE
    Let(poll_fd_set(g, g.proc_list[pi], fds, 1, << >>, 0), LAMBDA r :
    IF r.ready_count > 0
    THEN [g |-> g, rax |-> r.ready_count, halted |-> FALSE, revents |-> r.revents]
    ELSE IF timeout_ms = 0
    THEN [g |-> g, rax |-> 0, halted |-> FALSE, revents |-> r.revents]
    ELSE poll_loop(g, [active |-> TRUE, fds |-> fds, start |-> uptime(g.TICKS),
                       timeout_ms |-> timeout_ms])))

\* poll after halt() returned: the entries are scanned again, then the
\* loop starts over.
poll_wake(g) ==
    Let(poll_fd_set(g, Top(g), g.polling.fds, 1, << >>, 0), LAMBDA r :
    IF r.ready_count > 0
    THEN [g |-> [g EXCEPT !.polling = NoPoll], rax |-> r.ready_count, halted |-> FALSE,
          revents |-> r.revents]
    ELSE poll_loop(g, g.polling))

\* execve.  On success control goes to the new process and the caller's
\* syscall frame stays behind on its kernel stack.
execev(g, path) ==
    Let(vfs_open(path), LAMBDA node :
    IF node.kind = "none" THEN [g |-> g, rax |-> 0 - 2]
    ELSE IF Cur(g) = 0 THEN [g |-> Panic(g), rax |-> 0]
    ELSE
    Let(Process_new(node.elf, g.proc_list[Cur(g)].pwd, ArgvOf(path), g.PID, g.a, g.cr3,
                    g.NEXT_PID), LAMBDA r :
    Let([g EXCEPT !.a = r.a, !.cr3 = r.cr3, !.NEXT_PID = r.next_pid], LAMBDA g1 :
        IF r.res = "ok" THEN [g |-> run(swapgs(g1), r.proc), rax |-> 0]
        ELSE IF r.res = "panic" THEN [g |-> Panic(g1), rax |-> 0]
        ELSE [g |-> g1, rax |-> 0 - 1])))

----------------------------------------------------------------------------
(* User pointers and the dispatcher *)

\* A path pointer a program passes: the address of a NUL-terminated string
\* s in its memory ("str"), of 4096 mapped bytes without a NUL ("toolong"),
\* or the address 0, which no page table of the model maps ("null").
UserStr(s) == [kind |-> "str", s |-> s]
TooLongPtr == [kind |-> "toolong", s |-> <<"">>]
NullPtr == [kind |-> "null", s |-> <<"">>]

\* copy_cstr_from_user: "ok" with the string, "err" (TooLong), or "fault":
\* is_user_accessible accepts every address, so the read of an unmapped
\* byte page-faults in kernel mode.
copy_cstr_from_user(uptr) ==
    CASE uptr.kind = "str"     -> [res |-> "ok", s |-> uptr.s]
      [] uptr.kind = "toolong" -> [res |-> "err", s |-> <<"">>]
      [] OTHER                 -> [res |-> "fault", s |-> <<"">>]

\* The SYS_OPEN arm of syscall_handler: a failed copy becomes the empty
\* path.
sys_open(g, uptr, flags) ==
    Let(copy_cstr_from_user(uptr), LAMBDA c :
        IF c.res = "fault" THEN [g |-> Panic(g), rax |-> 0]
        ELSE open(g, IF c.res = "ok" THEN c.s ELSE <<"">>, flags))

\* execev from its first line on: the path is copied in first.
sys_execve(g, uptr) ==
    Let(copy_cstr_from_user(uptr), LAMBDA c :
        IF c.res = "fault" THEN [g |-> Panic(g), rax |-> 0]
        ELSE IF c.res = "err" THEN [g |-> g, rax |-> 0 - 1]
        ELSE execev(g, PathString(c.s)))

\* arch_prctl; its last arm returns EINVAL of the syscall types (22) as it
\* is, not negated.
arch_prctl(g, code, addr) ==
    CASE code = ARCH_SET_FS -> [g |-> [g EXCEPT !.msr.fs = addr], rax |-> 0]
      [] code = ARCH_GET_FS -> [g |-> g, rax |-> g.msr.fs]
      [] code = ARCH_SET_GS -> [g |-> [g EXCEPT !.msr.gs = addr], rax |-> 0]
      [] code = ARCH_GET_GS -> [g |-> g, rax |-> g.msr.gs]
      [] OTHER              -> [g |-> g, rax |-> 0 - EINVAL]

\* The default arm of syscall_handler.
unknown_syscall(g) == [g |-> g, rax |-> 0 - ENOSYS_DISPATCH]

----------------------------------------------------------------------------
(* Actions *)

Ret(op, rax, arg, arg2, born) ==
    [op |-> op, rax |-> rax, arg |-> arg, arg2 |-> arg2, born |-> born]

\* A line is entered at the console prompt.
ConsoleLine(segments) ==
    /\ cpu.mode = "console"
    /\ PidsLeft
    /\ Apply(execute_command_line(G, segments), Ret("line", 0, Len(segments), 0, {}))

\* User code runs only while its own page table is the active one.
InUser == cpu.mode = "user" /\ Len(proc_list) > 1 /\ cr3 = Top(G).page_table_frame

SyscallsDone == (cpu.rip - Top(G).entry_point) \div SYSCALL_LEN

\* The SYSCALL trampoline: SWAPGS, the stack pointer is loaded from
\* gs:[0], and the user frame (RCX as RIP, user RSP) goes onto the kernel
\* stack of the running process.
Entered ==
    [swapgs(G) EXCEPT !.msr.entry = msr.kgs,
                      !.proc_list[Len(proc_list)].uframe =
                         [rip |-> cpu.rip + SYSCALL_LEN, rsp |-> cpu.rsp]]

\* SWAPGS and SYSRETQ: back to the saved RIP and RSP.
SysRet(g) == swapgs([g EXCEPT !.cpu.rip = cpu.rip + SYSCALL_LEN])

UserPush ==
    /\ InUser
    /\ cpu.rsp = Top(G).stack
    /\ Apply([G EXCEPT !.cpu.rsp = @ - 16], Ret("push", 0, 0, 0, {}))

BrkAddrs ==
    LET b == Top(G).mm.brk_cur
    IN  { x \in {0, 8, b + PAGE, b + PAGE + 1, b - PAGE} : x >= 0 /\ x <= UpperPage * PAGE }

Brk(addr) ==
    /\ InUser /\ SyscallsDone < MaxSyscalls
    /\ Let(brk(Entered, addr), LAMBDA r :
           Apply(SysRet(r.g), Ret("brk", r.rax, addr, 0, {})))

AnonFlags == [fixed |-> FALSE, anon |-> TRUE, shared |-> FALSE]
FixedFlags == [fixed |-> TRUE, anon |-> TRUE, shared |-> FALSE]
FileFlags == [fixed |-> FALSE, anon |-> FALSE, shared |-> TRUE]

Regions == Top(G).mm.mmap_regions

MmapReqs ==
    { [addr |-> 0, size |-> sz, flags |-> AnonFlags, fd |-> 0 - 1, offset |-> 0] :
        sz \in {0, PAGE, PAGE + 1, UpperPage * PAGE} }
    \cup { [addr |-> ad, size |-> PAGE, flags |-> FixedFlags, fd |-> 0 - 1, offset |-> 0] :
        ad \in {0, USER_LOWER + 8, USER_LOWER + (2 * PAGE)} }
    \cup { [addr |-> Regions[i].base, size |-> Regions[i].len, flags |-> FixedFlags,
            fd |-> 0 - 1, offset |-> 0] : i \in 1 .. Len(Regions) }
    \cup { [addr |-> 0, size |-> PAGE, flags |-> FileFlags, fd |-> 3, offset |-> off] :
        off \in {0, PAGE \div 2} }

Mmap(req) ==
    /\ InUser /\ SyscallsDone < MaxSyscalls
    /\ Let(mmap(Entered, req.addr, req.size, req.flags, req.fd, req.offset), LAMBDA r :
           Apply(SysRet(r.g), Ret("mmap", r.rax, req, 0, {})))

MunmapReqs ==
    { <<Regions[i].base, Regions[i].len>> : i \in 1 .. Len(Regions) }
    \cup { <<Regions[i].base, Regions[i].len + PAGE>> : i \in 1 .. Len(Regions) }
    \cup { <<USER_LOWER, PAGE>>, <<USER_LOWER + 8, PAGE>>, <<USER_LOWER, 0>> }

Munmap(addr, size) ==
    /\ InUser /\ SyscallsDone < MaxSyscalls
    /\ Let(munmap(Entered, addr, size), LAMBDA r :
           Apply(SysRet(r.g), Ret("munmap", r.rax, addr, size, {})))

\* Bookkeeping of the descriptors handed out and not closed since.
Handed(g, fd) ==
    IF fd >= 3 /\ Len(g.proc_list) > 1
    THEN [g EXCEPT !.proc_list[Len(g.proc_list)].opened = @ \cup {fd}]
    ELSE g

Taken(g, fd, rax) ==
    IF rax = 0 /\ Len(g.proc_list) > 1
    THEN [g EXCEPT !.proc_list[Len(g.proc_list)].opened = @ \ {fd}]
    ELSE g

Open(path) ==
    /\ InUser /\ SyscallsDone < MaxSyscalls
    /\ Let(open(Entered, path, O_RDONLY), LAMBDA r :
           Apply(SysRet(Handed(r.g, r.rax)), Ret("open", r.rax, path, O_RDONLY, {})))

Openat(dirfd, path, flags) ==
    /\ InUser /\ SyscallsDone < MaxFdCalls
    /\ Let(openat(Entered, dirfd, path, flags), LAMBDA r :
           Apply(SysRet(Handed(r.g, r.rax)), Ret("openat", r.rax, path, flags, {})))

Close(fd) ==
    /\ InUser /\ SyscallsDone < MaxFdCalls
    /\ Let(close(Entered, fd), LAMBDA r :
           Apply(SysRet(Taken(r.g, fd, r.rax)), Ret("close", r.rax, fd, 0, {})))

Fcntl(fd, cmd, arg) ==
    /\ InUser /\ SyscallsDone < MaxFdCalls
    /\ Let(fcntl(Entered, fd, cmd, arg), LAMBDA r :
           Apply(SysRet(IF cmd = F_DUPFD THEN Handed(r.g, r.rax) ELSE r.g),
                 Ret("fcntl", r.rax, <<fd, cmd>>, arg, {})))

Lseek(fd, offset, whence) ==
    /\ InUser /\ SyscallsDone < MaxFdCalls
    /\ Let(SYS_LSEEK(Entered, fd, offset, whence), LAMBDA r :
           Apply(SysRet(r.g), Ret("lseek", r.rax, <<fd, whence>>, offset, {})))

\* open with the path behind a user pointer.
OpenPtr(uptr, flags) ==
    /\ InUser /\ SyscallsDone < MaxSyscalls
    /\ Let(sys_open(Entered, uptr, flags), LAMBDA r :
           IF r.g.cpu.mode = "panic"
           THEN Apply(r.g, Ret("sys_open", r.rax, uptr, flags, {}))
           ELSE Apply(SysRet(Handed(r.g, r.rax)), Ret("sys_open", r.rax, uptr, flags, {})))

\* execve with the path behind a user pointer.
ExecvePtr(uptr) ==
    /\ InUser /\ SyscallsDone < MaxSyscalls
    /\ PidsLeft /\ Len(proc_list) < MaxChain
    /\ Let(sys_execve(Entered, uptr), LAMBDA r :
           IF r.g.cpu.mode = "user" /\ Len(r.g.proc_list) = Len(proc_list)
           THEN Apply(SysRet(r.g), Ret("sys_execve", r.rax, uptr, 0, {}))
           ELSE Apply(r.g, Ret("sys_execve", r.rax, uptr, 0, {})))

ArchPrctl(code, addr) ==
    /\ InUser /\ SyscallsDone < MaxSyscalls
    /\ Let(arch_prctl(Entered, code, addr), LAMBDA r :
           Apply(SysRet(r.g), Ret("arch_prctl", r.rax, code, addr, {})))

\* A syscall number the dispatcher does not know.
UnknownSyscall(number) ==
    /\ InUser /\ SyscallsDone < MaxSyscalls
    /\ Let(unknown_syscall(Entered), LAMBDA r :
           Apply(SysRet(r.g), Ret("unknown", r.rax, number, 0, {})))

Write(data) ==
    /\ InUser /\ SyscallsDone < MaxSyscalls
    /\ Let(write(Entered, 1, data), LAMBDA r :
           Apply(SysRet(r.g), Ret("write", r.rax, data, 0, {})))

Getdents64(fd, user_buf, buf_len) ==
    /\ InUser /\ SyscallsDone < MaxFdCalls
    /\ Let(getdent64(Entered, fd, user_buf, buf_len), LAMBDA r :
           Apply(SysRet(r.g), Ret("getdents64", r.rax, <<fd, buf_len, user_buf>>, r.out, {})))

\* writev on the terminal or on a descriptor whose write the model covers.
Writev(fd, iov, iovcnt) ==
    /\ InUser /\ SyscallsDone < MaxFdCalls
    /\ fd \in {1, 2} \/ WritesDataFile(Top(G), fd)
    /\ Let(writev(Entered, fd, iov, iovcnt), LAMBDA r :
           Apply(SysRet(r.g), Ret("writev", r.rax, <<fd, [k \in 1 .. iovcnt |-> Len(iov[k])]>>, r.rs, {})))

\* readv on a descriptor of the table that is closed, a directory or a
\* regular file.
Readv(fd, iov, iov_count) ==
    /\ InUser /\ SyscallsDone < MaxFdCalls
    /\ fd > 2 /\ NodeKind(Top(G), fd) \in {"", "dir", "file"}
    /\ Let(readv(Entered, fd, iov, iov_count), LAMBDA r :
           Apply(SysRet(r.g), Ret("readv", r.rax, <<fd, SubSeq(iov, 1, iov_count)>>, r.rs, {})))

\* write on a descriptor of the table.
WriteFd(fd, data) ==
    /\ InUser /\ SyscallsDone < MaxFdCalls
    /\ WritesDataFile(Top(G), fd)
    /\ Let(write(Entered, fd, data), LAMBDA r :
           Apply(IF r.g.cpu.mode = "panic" THEN r.g ELSE SysRet(r.g),
                 Ret("write_fd", r.rax, fd, data, {})))

\* read on fd 0 while the pipeline has input installed.
Read(n) ==
    /\ InUser /\ SyscallsDone < MaxSyscalls
    /\ pipeline_read(G, n).some
    /\ Let(pipeline_read(Entered, n), LAMBDA r :
           Apply(SysRet(r.g), Ret("read", Len(r.bytes), r.bytes, 0, {})))

\* read(fd, buf, n) on one of the three standard descriptors.
ReadStd(fd, n) ==
    /\ InUser /\ SyscallsDone < MaxSyscalls
    /\ Let(read(Entered, fd, n), LAMBDA r :
           IF r.halted
           THEN Apply([r.g EXCEPT !.cpu.mode = "halt"], Ret("read_halt", 0, fd, n, {}))
           ELSE IF r.g.cpu.mode = "panic" THEN Apply(r.g, Ret("read_std", 0, fd, n, {}))
           ELSE Apply(SysRet(r.g), Ret("read_std", r.rax, fd, n, {})))

Poll(fds_ptr, fds, timeout_ms) ==
    /\ InUser /\ SyscallsDone < MaxPolls
    /\ Let(poll(Entered, fds_ptr, fds, timeout_ms), LAMBDA r :
           IF r.halted
           THEN Apply([r.g EXCEPT !.cpu.mode = "halt"],
                      Ret("poll_halt", 0, <<fds, timeout_ms, uptime(TICKS)>>, r.revents, {}))
           ELSE Apply(SysRet(r.g),
                      Ret("poll", r.rax, <<fds, timeout_ms, uptime(TICKS)>>, r.revents, {})))

\* halt() returns after an interrupt and the loop of poll goes on.
PollWake ==
    /\ cpu.mode = "halt" /\ polling.active
    /\ Let(poll_wake(G), LAMBDA r :
           IF r.halted
           THEN Apply(r.g, Ret("poll_halt", 0, <<polling.fds, polling.timeout_ms,
                                                polling.start>>, r.revents, {}))
           ELSE Apply(swapgs([r.g EXCEPT !.cpu.mode = "user",
                                         !.cpu.rip = cpu.rip + SYSCALL_LEN]),
                      Ret("poll", r.rax, <<polling.fds, polling.timeout_ms, polling.start>>,
                          r.revents, {})))

\* The timer interrupt: pit_tick_isr counts it.  The count is cut off at
\* MaxTicks unless a poll call is waiting for a deadline still ahead.
Tick ==
    /\ cpu.mode \in {"user", "halt"}
    /\ \/ TICKS < MaxTicks
       \/ /\ cpu.mode = "halt" /\ polling.active /\ polling.timeout_ms > 0
          /\ uptime(TICKS) < polling.start + polling.timeout_ms * 1000
    /\ Apply([G EXCEPT !.TICKS = @ + 1], Ret("tick", 0, 0, 0, {}))

\* The keyboard interrupt: Tty::on_key queues the key.
Key(c) ==
    /\ cpu.mode \in {"user", "halt"}
    /\ Len(tty.input_buffer) < MaxKeys
    /\ Apply([G EXCEPT !.tty.input_buffer = Append(@, c)], Ret("key", 0, c, 0, {}))

\* halt() returns after the interrupt and the loop of Tty::read goes on.
ReadWake ==
    /\ cpu.mode = "halt" /\ tty.rd.active /\ tty.input_buffer # << >>
    /\ Let(Tty_read(tty, tty.rd.n, tty.rd.i), LAMBDA r :
           IF r.halted
           THEN Apply([G EXCEPT !.tty = r.t], Ret("read_halt", 0, 0, tty.rd.n, {}))
           ELSE Apply(swapgs([G EXCEPT !.tty = r.t, !.cpu.mode = "user",
                                       !.cpu.rip = cpu.rip + SYSCALL_LEN]),
                      Ret("read_std", r.rax, 0, tty.rd.n, {})))

Execve(path) ==
    /\ InUser /\ SyscallsDone < MaxSyscalls
    /\ PidsLeft /\ Len(proc_list) < MaxChain
    /\ Let(execev(Entered, path), LAMBDA r :
           IF r.g.cpu.mode = "user" /\ Len(r.g.proc_list) = Len(proc_list)
           THEN Apply(SysRet(r.g), Ret("execve", r.rax, path, 0, {}))
           ELSE Apply(r.g, Ret("execve", r.rax, path, 0, {})))

Exit ==
    /\ InUser
    /\ Apply(sys_exit(Entered), Ret("exit", 0, Top(G).pid, Top(G).parent_pid, Top(G).born))

\* A fault in user mode.  The page-fault handler first reads the bytes at
\* the faulting RIP: it faults itself, in kernel mode, when the active page
\* table does not map the user code, and the kernel panics.
Fault ==
    /\ cpu.mode = "user" /\ Len(proc_list) > 1
    /\ IF cr3 = Top(G).page_table_frame
       THEN Apply(exit(G), Ret("fault", 0, Top(G).pid, Top(G).parent_pid, Top(G).born))
       ELSE Apply(Panic(G), Ret("kernel_fault", 0, Top(G).pid, 0, {}))

\* The whole system: command lines, the exec chain, process exit and faults.
Next ==
    \/ \E segments \in CmdLines : ConsoleLine(segments)
    \/ UserPush
    \/ Brk(Top(G).mm.brk_cur + PAGE)
    \/ Write(<<1>>)
    \/ Read(1)
    \/ \E path \in {"/bin/hello", "/bin/bad", "/bin/none"} : Execve(path)
    \/ Exit
    \/ Fault

Spec == Init /\ [][Next]_vars

\* One user program at a time and its memory system calls.
NextMem ==
    \/ \E cmd \in {"hello", "dyn"} : ConsoleLine(<<cmd>>)
    \/ \E addr \in BrkAddrs : Brk(addr)
    \/ \E req \in MmapReqs : Mmap(req)
    \/ \E rq \in MunmapReqs : Munmap(rq[1], rq[2])
    \/ \E path \in {<<"", "dev", "fb0">>, <<"", "bin", "hello">>} : Open(path)
    \/ Exit

SpecMem == Init /\ [][NextMem]_vars

\* One user program and its descriptor system calls.
P_hello == <<"", "bin", "hello">>
P_none == <<"", "bin", "none">>
P_bin == <<"", "bin">>

OpenatReqs ==
    { <<AT_FDCWD, P_hello, O_RDONLY>>,
      <<AT_FDCWD, P_hello, O_WRONLY + O_APPEND + O_CLOEXEC>>,
      <<AT_FDCWD, P_none, O_RDONLY>>,
      <<AT_FDCWD, P_bin, O_DIRECTORY>>,
      <<3, <<"hello">>, O_RDONLY>> }

FcntlReqs ==
    { <<3, F_DUPFD, 0>>, <<3, F_DUPFD, 5>>, <<4, F_DUPFD, 0>>, <<1, F_DUPFD, 0>>,
      <<3, F_GETFD, 0>>, <<4, F_GETFD, 0>>, <<3, F_SETFD, 1>>,
      <<3, F_GETFL, 0>>, <<4, F_GETFL, 0>>, <<4, F_SETFL, O_NONBLOCK + O_WRONLY>>,
      <<3, 9, 0>> }

LseekReqs ==
    { <<3, 2, 0>>, <<4, 3, 0>>, <<3, 0, 1>>, <<4, 0, 1>>, <<3, 0, 2>>, <<3, 0, 7>> }

NextFd ==
    \/ ConsoleLine(<<"hello">>)
    \/ \E rq \in OpenatReqs : Openat(rq[1], rq[2], rq[3])
    \/ \E fd \in {1, 3, 4} : Close(fd)
    \/ \E rq \in FcntlReqs : Fcntl(rq[1], rq[2], rq[3])
    \/ \E rq \in LseekReqs : Lseek(rq[1], rq[2], rq[3])

\* The machine with the most frames, after init().
InitLarge == Init /\ frames_count = NFrames

\* The machine with the console alone in the table, freshly booted or
\* after so many programs ran and exited that the 16-bit counter stands
\* at its last value.
InitPid ==
    /\ \E next_pid \in {2, U16_MAX} : BootedAt(next_pid)
    /\ frames_count = NFrames
    /\ ret = [op |-> "boot", rax |-> 0, arg |-> 0, arg2 |-> 0, born |-> {}]

NextPid ==
    \/ ConsoleLine(<<"hello">>)
    \/ Execve("/bin/hello")
    \/ Write(<<1>>)
    \/ Exit

SpecPid == InitPid /\ [][NextPid]_vars

SpecFd == InitLarge /\ [][NextFd]_vars

\* One user program that opens, writes and seeks the data file.
P_log == <<"", "var", "log">>

NextFile ==
    \/ ConsoleLine(<<"hello">>)
    \/ \E flags \in {O_RDONLY, O_RDWR, O_WRONLY + O_APPEND} : Openat(AT_FDCWD, P_log, flags)
    \/ \E data \in {<<1>>, <<2, 2>>} : WriteFd(3, data)
    \/ \E rq \in {<<0, 0>>, <<1, 0>>, <<0, 1>>, <<1, 1>>, <<1, 2>>, <<0, 3>>,
                   <<1, 256>>, <<0, 258>>, <<1, 0 - 1>>} :
           Lseek(3, rq[1], rq[2])
    \/ Close(3)
    \/ Exit

SpecFile == InitLarge /\ [][NextFile]_vars

\* One user program that writes and reads the data file in segments.
NextVec ==
    \/ ConsoleLine(<<"hello">>)
    \/ \E flags \in {O_RDONLY, O_WRONLY, O_RDWR} : Openat(AT_FDCWD, P_log, flags)
    \/ \E fd \in {1, 3} : \E iovcnt \in {0 - 1, 3} :
           Writev(fd, << <<1>>, << >>, <<2, 2>> >>, iovcnt)
    \/ \E iov \in {<<1, 0, 1>>, <<2, 2>>} : Readv(3, iov, 2)
    \/ Close(3)
    \/ Exit

SpecVec == InitLarge /\ [][NextVec]_vars

\* One user program that reads a directory.
BufAddr == 2 * PAGE

NextDir ==
    \/ ConsoleLine(<<"hello">>)
    \/ Openat(AT_FDCWD, P_bin, O_DIRECTORY)
    \/ Openat(AT_FDCWD, P_hello, O_RDONLY)
    \/ \E fd \in {3, 4} : \E buf_len \in {8, 21, 32, 56, 4096} : Getdents64(fd, BufAddr, buf_len)
    \/ Getdents64(3, 0, 4096)
    \/ Close(3)
    \/ Exit

SpecDir == InitLarge /\ [][NextDir]_vars

\* Programs of every kind of image, started from the console or by execve.
LoadCmds == {"hello", "dyn", "stat", "noph", "noint"}

NextExec ==
    \/ \E cmd \in LoadCmds : ConsoleLine(<<cmd>>)
    \/ \E path \in {"/bin/dyn", "/bin/stat", "/bin/noph"} : Execve(path)
    \/ Exit

SpecExec == Init /\ [][NextExec]_vars

\* One user program, the pointers it passes and the calls that set no
\* state of their own.
PathPtrs == {UserStr(P_hello), UserStr(P_none), TooLongPtr, NullPtr}
ArchReqs == { <<ARCH_SET_FS, PAGE>>, <<ARCH_GET_FS, 0>>, <<ARCH_SET_GS, 2 * PAGE>>,
              <<ARCH_GET_GS, 0>>, <<0, 0>> }
UnknownNumber == 9999

NextSys ==
    \/ ConsoleLine(<<"hello">>)
    \/ \E uptr \in PathPtrs : OpenPtr(uptr, O_RDONLY)
    \/ \E uptr \in PathPtrs : ExecvePtr(uptr)
    \/ \E rq \in ArchReqs : ArchPrctl(rq[1], rq[2])
    \/ UnknownSyscall(UnknownNumber)
    \/ Close(3)
    \/ Exit

SpecSys == InitLarge /\ [][NextSys]_vars

\* One user program at the terminal: keystrokes, reads of the standard
\* descriptors and the status flags of fd 0.
KEY_A == 97
NextTty ==
    \/ ConsoleLine(<<"hello">>)
    \/ \E c \in {KEY_A, NEWLINE} : Key(c)
    \/ \E fd \in {0, 1} : \E n \in 1 .. MaxKeys : ReadStd(fd, n)
    \/ ReadWake
    \/ \E arg \in {0, O_NONBLOCK} : Fcntl(0, F_SETFL, arg)
    \/ Exit

SpecTty == InitLarge /\ [][NextTty]_vars

\* One user program that polls the terminal and its descriptors while
\* timer and keyboard interrupts arrive.
PollFd(fd, events) == [fd |-> fd, events |-> events]

PollSets ==
    { << PollFd(0, POLLIN) >>,
      << PollFd(0, 0), PollFd(0 - 1, POLLIN) >>,
      << PollFd(1, POLLOUT), PollFd(0 - 1, POLLOUT), PollFd(3, POLLIN) >> }

NextPoll ==
    \/ ConsoleLine(<<"hello">>)
    \/ Open(P_hello)
    \/ \E fds \in PollSets : \E timeout_ms \in {0, 0 - 1, 100} : Poll(BufAddr, fds, timeout_ms)
    \/ Poll(0, << PollFd(0, POLLIN) >>, 0)
    \/ Poll(BufAddr, << >>, 100)
    \/ PollWake
    \/ Tick
    \/ Key(KEY_A)
    \/ Exit

\* Timer interrupts keep arriving, and the processor goes on after halt()
\* once an interrupt was served.
SpecPoll == InitLarge /\ [][NextPoll]_vars /\ WF_vars(Tick) /\ WF_vars(PollWake)

\* One fresh address space and the allocator after boot; ret.arg is the
\* memory state, ret.rax counts the calls made on it.
InitAlloc ==
    /\ Booted
    /\ frames_count = NFrames
    /\ ret = [op |-> "mem", rax |-> 0,
              arg |-> [bitmap |-> bitmap, next |-> next_free_index, count |-> frames_count,
                       map |-> EmptyMap, tables |-> EmptyTables],
              arg2 |-> 0, born |-> {}]

AllocPages(addr, size) ==
    /\ ret.op \in {"mem", "alloc_pages", "load_segments"} /\ ret.rax < MaxAllocs
    /\ Apply(G, Ret("alloc_pages", ret.rax + 1, alloc_pages(ret.arg, addr, size).m,
                    [before |-> ret.arg, addr |-> addr, size |-> size], {}))

\* The segment loop of load_elf_image on its own.
LoadSegments(segs) ==
    /\ ret.op \in {"mem", "alloc_pages", "load_segments"} /\ ret.rax < MaxAllocs
    /\ Apply(G, Ret("load_segments", ret.rax + 1,
                    load_segments(segs, 1, 0, ret.arg, << >>, 0).m,
                    [before |-> ret.arg, segs |-> segs], {}))

\* Text and data segments: apart, and with the data starting in the last
\* page of the text.
SegLists ==
    { << <<PAGE, 100, 0, 100>>, <<3 * PAGE, 100, PAGE, 100>> >>,
      << <<PAGE, PAGE + 100, 0, PAGE + 100>>, <<(2 * PAGE) + 512, PAGE, 2 * PAGE, 100>> >> }

NextAlloc ==
    \/ \E addr \in {PAGE, (2 * PAGE) + 8, 5 * PAGE}, size \in {1, PAGE, PAGE + 1, 3 * PAGE} :
          AllocPages(addr, size)
    \/ \E segs \in SegLists : LoadSegments(segs)

SpecAlloc == InitAlloc /\ [][NextAlloc]_vars

\* A system call entered while IA32_KERNEL_GS_BASE holds an address other
\* than the kernel's block: the trampoline stores the user RSP at that
\* address plus 8 and takes the kernel stack pointer from the word at it.
\* What follows depends on the memory there; this is the outcome in which
\* the kernel does not survive it, the system call actions are the one in
\* which the word is a usable stack.
BadEntry ==
    /\ InUser /\ msr.kgs # kgs_va
    /\ Apply(Panic(Entered), Ret("bad_entry", 0, msr.kgs, 0, {}))

\* Programs that set and read the segment bases between other calls.
NextGs ==
    \/ ConsoleLine(<<"hello">>)
    \/ \E rq \in { <<ARCH_SET_GS, 2 * PAGE>>, <<ARCH_GET_GS, 0>>, <<ARCH_SET_FS, PAGE>>,
                    <<ARCH_GET_FS, 0>> } : ArchPrctl(rq[1], rq[2])
    \/ Write(<<1>>)
    \/ Execve("/bin/hello")
    \/ Exit
    \/ BadEntry

SpecGs == InitLarge /\ [][NextGs]_vars

----------------------------------------------------------------------------
(* The input queue of the terminal and its lock.  A state q is            *)
(* [pc, if_, lock, isr, key, input_buffer]: where Tty::read stands, the   *)
(* interrupt flag of the code that reads, who holds the spin lock of      *)
(* input_buffer, whether the keyboard interrupt handler runs and with     *)
(* which key, and the queue.                                              *)

\* Tty::read is entered: by the console loop started at boot, which
\* runs with RFLAGS = 0x200, or by read(0, ...), which runs with the
\* interrupt flag IA32_FMASK cleared at SYSCALL.
tty_read_enter(q, from) ==
    [q EXCEPT !.pc = "loop", !.if_ = (from = "console")]

\* `self.input_buffer.lock()` of the emptiness test and of pop_front:
\* the lock is taken.
tty_read_lock(q) ==
    [q EXCEPT !.lock = "read", !.pc = IF q.pc = "loop" THEN "is_empty" ELSE "pop_front"]

\* The guard of the emptiness test is dropped: halt() comes next on an
\* empty queue, pop_front otherwise.
tty_read_tested(q) ==
    [q EXCEPT !.lock = "free", !.pc = IF q.input_buffer = << >> THEN "halt" ELSE "pop"]

\* pop_front and the drop of its guard; the console loop reads into a
\* buffer of one byte, so read returns.
tty_read_popped(q) ==
    [q EXCEPT !.lock = "free", !.input_buffer = Tail(@), !.pc = "out"]

\* The keyboard interrupt arrives: the handler starts on top of the
\* interrupted code, which stands still until the handler returns.
keyboard_interrupt(q, c) == [q EXCEPT !.isr = TRUE, !.key = c]

\* put_input: `self.input_buffer.lock().push_back(c)`, then the handler
\* returns, which also ends a halt() of the interrupted code.  While the
\* lock is held the spin lock's loop does not end.
put_input(q) ==
    [q EXCEPT !.isr = FALSE, !.input_buffer = Append(@, q.key),
              !.pc = IF q.pc = "halt" THEN "loop" ELSE q.pc]

\* Whether the interrupted code lets interrupts in: it runs with IF set,
\* it sits in halt() (STI; HLT), or it is not in Tty::read at all.
InterruptsOn(q) == q.if_ \/ q.pc \in {"halt", "out"}

InitIsr ==
    /\ Booted
    /\ frames_count = NFrames
    /\ ret = [op |-> "tty_lock", rax |-> 0,
              arg |-> [pc |-> "out", if_ |-> TRUE, lock |-> "free", isr |-> FALSE,
                       key |-> 0, input_buffer |-> << >>],
              arg2 |-> 0, born |-> {}]

LockStep(op, q) == Apply(G, Ret(op, 0, q, 0, {}))

ReadEnter(from) ==
    /\ ret.arg.pc = "out" /\ ~ret.arg.isr
    /\ LockStep("tty_lock", tty_read_enter(ret.arg, from))

ReadLock ==
    /\ ret.arg.pc \in {"loop", "pop"} /\ ~ret.arg.isr /\ ret.arg.lock = "free"
    /\ LockStep("tty_lock", tty_read_lock(ret.arg))

ReadTested ==
    /\ ret.arg.pc = "is_empty" /\ ~ret.arg.isr
    /\ LockStep("tty_lock", tty_read_tested(ret.arg))

ReadPopped ==
    /\ ret.arg.pc = "pop_front" /\ ~ret.arg.isr
    /\ LockStep("tty_lock", tty_read_popped(ret.arg))

KeyboardInterrupt(c) ==
    /\ ~ret.arg.isr /\ InterruptsOn(ret.arg)
    /\ Len(ret.arg.input_buffer) < MaxKeys
    /\ LockStep("tty_lock", keyboard_interrupt(ret.arg, c))

PutInput ==
    /\ ret.arg.isr /\ ret.arg.lock = "free"
    /\ LockStep("tty_lock", put_input(ret.arg))

NextIsr ==
    \/ \E from \in {"console", "syscall"} : ReadEnter(from)
    \/ ReadLock
    \/ ReadTested
    \/ ReadPopped
    \/ \E c \in {KEY_A, NEWLINE} : KeyboardInterrupt(c)
    \/ PutInput

\* The handler runs on until it returns.
SpecIsr == InitIsr /\ [][NextIsr]_vars /\ WF_vars(PutInput)

\* One user program at a time that moves its break and maps anonymous
\* memory where the kernel chooses.
NextHeap ==
    \/ \E cmd \in {"hello", "dyn"} : ConsoleLine(<<cmd>>)
    \/ \E addr \in BrkAddrs : Brk(addr)
    \/ \E sz \in {PAGE, PAGE + 1} :
          Mmap([addr |-> 0, size |-> sz, flags |-> AnonFlags, fd |-> 0 - 1, offset |-> 0])
    \/ Exit

SpecHeap == Init /\ [][NextHeap]_vars

\* One user program that opens two files and sets and reads status flags
\* of the standard descriptors and of its own.
SetflArgs ==
    { 0, O_APPEND, O_NONBLOCK + O_RDWR, O_APPEND + O_NONBLOCK + O_WRONLY + O_DIRECTORY }

NextSetfl ==
    \/ ConsoleLine(<<"hello">>)
    \/ Openat(AT_FDCWD, P_hello, O_RDONLY)
    \/ Openat(AT_FDCWD, P_log, O_WRONLY + O_APPEND)
    \/ \E fd \in 0 .. 4, v \in SetflArgs : Fcntl(fd, F_SETFL, v)
    \/ \E fd \in 0 .. 4 : Fcntl(fd, F_GETFL, 0)
    \/ Fcntl(3, F_DUPFD, 0)

SpecSetfl == InitLarge /\ [][NextSetfl]_vars

----------------------------------------------------------------------------
(* Properties: the exec chain *)

Pids(list) == [i \in 1 .. Len(list) |-> list[i].pid]

\* C1: when a child exits or is killed and its parent is a user process,
\* the parent goes on exactly where it left off: at the instruction after
\* its execve SYSCALL, with the stack pointer it had there.
C1_ParentResumes ==
    (ret.op \in {"exit", "fault"} /\ ret.arg2 # 1 /\ cpu.mode = "user")
        => (cpu.rip = Top(G).uframe.rip /\ cpu.rsp = Top(G).uframe.rsp)

\* C2: an execve that fails returns a negative value and leaves the
\* process table, the PID register and CR3 as they were.
C2_FailedExecveChangesNothing ==
    [][(ret'.op = "execve" /\ cpu'.mode = "user" /\ Len(proc_list') = Len(proc_list))
         => (ret'.rax < 0 /\ Pids(proc_list') = Pids(proc_list)
             /\ PID' = PID /\ cr3' = cr3)]_vars

\* C3: when a process has terminated, every frame taken on its behalf is
\* free again: the allocated set is the one from before it was created.
C3_ExitReturnsAllFrames ==
    (ret.op \in {"exit", "fault"} /\ cpu.mode # "panic") => bitmap = ret.born

UserProgram(cmd) == vfs_open(BinPath(cmd)).kind = "file" /\ vfs_open(BinPath(cmd)).elf.magic

\* C4: a pipeline of two or more user programs runs every stage, left to
\* right: the console is not back at its prompt while a stage of the line
\* has not been started.
C4_PipelineRunsEveryStage ==
    (cpu.mode = "console" /\ Len(line.segments) >= 2
        /\ \A i \in 1 .. Len(line.segments) : UserProgram(line.segments[i]))
        => line.started = Len(line.segments)

\* C5: the PID register names a process of the table, and that process is
\* the last one of the chain.
C5_PidNamesTopOfChain ==
    cpu.mode # "panic" => (get_process(proc_list, PID) # 0 /\ Top(G).pid = PID)

----------------------------------------------------------------------------
(* Properties: brk, mmap, munmap *)

\* The pages of [addr, addr + len).
PagesOf(addr, len) == { pg \in VPages : pg * PAGE >= addr /\ pg * PAGE < addr + len }

InRegion(p, pg) ==
    \/ \E i \in 1 .. Len(p.addr_size_vec) :
          pg \in FirstPage(p.addr_size_vec[i][1]) ..
                 LastPage(p.addr_size_vec[i][1], p.addr_size_vec[i][2])
    \/ \E i \in 1 .. Len(p.mm.mmap_regions) :
          pg \in PagesOf(p.mm.mmap_regions[i].base, p.mm.mmap_regions[i].len)

\* C6: after a brk call the break is the last accepted value, a
\* page-aligned request at or above heap_start is accepted, every page of
\* [heap_start, break) is mapped, and no page above the break is mapped
\* unless it belongs to a segment, the stack or an mmap region.
C6_BrkHeapExact ==
    (ret.op = "brk" /\ cpu.mode = "user") =>
        LET p == Top(G)
        IN  /\ (ret.arg # 0 /\ ret.arg % PAGE = 0 /\ ret.arg >= p.mm.heap_start)
                  => ret.rax = ret.arg
            /\ ret.rax = p.mm.brk_cur
            /\ \A pg \in PagesOf(p.mm.heap_start, p.mm.brk_cur - p.mm.heap_start) :
                  p.map[pg] # NoFrame
            /\ \A pg \in VPages :
                  (pg * PAGE >= p.mm.brk_cur /\ p.map[pg] # NoFrame) => InRegion(p, pg)

\* C7: munmap of an (addr, len) that mmap returned gives 0, after it no
\* page of the range is mapped and the region is no longer tracked, and a
\* MAP_FIXED mmap at the same addr and len would return addr.
C7_MunmapUndoesMmap ==
    [][(ret'.op = "munmap" /\ ret'.arg2 > 0
          /\ RegionPos(Regions, ret'.arg, align_up(ret'.arg2, PAGE)) # 0)
         => (/\ ret'.rax = 0
             /\ \A pg \in PagesOf(ret'.arg, align_up(ret'.arg2, PAGE)) :
                   Top(G)'.map[pg] = NoFrame
             /\ RegionPos(Regions', ret'.arg, align_up(ret'.arg2, PAGE)) = 0
             /\ mmap(G', ret'.arg, ret'.arg2, FixedFlags, 0 - 1, 0).rax = ret'.arg)]_vars

\* What munmap(addr, size) = rax did between the process states p and q
\* and the allocated sets bm0 and bm1.
MunmapEffect(p, q, addr, size, rax, bm0, bm1) ==
    LET len == align_up(size, PAGE)
        R == p.mm.mmap_regions
        hits == { i \in 1 .. Len(R) : R[i].base = addr /\ R[i].len = len }
        first == CHOOSE i \in hits : \A j \in hits : i <= j
    IN  IF size = 0 \/ addr % PAGE # 0 \/ hits = {}
        THEN /\ rax = EINVAL
             /\ q.mm.mmap_regions = R
             /\ q.map = p.map
             /\ bm1 = bm0
        ELSE /\ rax = 0
             /\ q.mm.mmap_regions = SubSeq(R, 1, first - 1) \o SubSeq(R, first + 1, Len(R))
             /\ \A pg \in VPages :
                   q.map[pg] = IF pg \in PagesOf(addr, len) THEN NoFrame ELSE p.map[pg]
             /\ IF R[first].kind = "Owned"
                THEN \A pg \in PagesOf(addr, len) :
                        p.map[pg] # NoFrame => p.map[pg] \notin bm1
                ELSE bm1 = bm0

\* C8: munmap removes exactly the tracked region that matches (base,
\* page-rounded length); an Owned region's frames go back to the
\* allocator, a Shared region's pages are unmapped and its frames stay
\* allocated; with an unaligned addr, a zero length or no exact match it
\* returns -EINVAL and changes neither the region list nor any mapping.
C8_MunmapExact ==
    [][ret'.op = "munmap"
         => MunmapEffect(Top(G), Top(G)', ret'.arg, ret'.arg2, ret'.rax, bitmap, bitmap')]_vars

\* A munmap that succeeded, left its pages unmapped and left another
\* region tracked.
C8_Witness ==
    /\ ret.op = "munmap" /\ ret.rax = 0
    /\ Top(G).map[FirstPage(ret.arg)] = NoFrame
    /\ Len(Regions) >= 1

\* C9: an address mmap returns without MAP_FIXED is page-aligned, at or
\* above max(heap end, USER_LOWER), and its range ends below USER_UPPER.
C9_MmapRangePlacement ==
    (ret.op = "mmap" /\ cpu.mode = "user" /\ ~ret.arg.flags.fixed /\ ret.rax > 0) =>
        /\ ret.rax % PAGE = 0
        /\ ret.rax >= Max(Top(G).mm.mapped_heap_end, USER_LOWER)
        /\ ret.rax + align_up(ret.arg.size, PAGE) < USER_UPPER

\* C10: an anonymous mmap returns an address only when every page of the
\* returned range is mapped to a frame.
C10_AnonMmapBacked ==
    (ret.op = "mmap" /\ cpu.mode = "user" /\ ret.arg.flags.anon /\ ret.rax > 0) =>
        \A pg \in PagesOf(ret.rax, align_up(ret.arg.size, PAGE)) :
            Top(G).map[pg] # NoFrame

\* Frames the allocator can still hand out.
FreeFrames == frames_count - Cardinality(bitmap)

\* The pages brk(addr) would have to back with new frames for process p.
BrkGrowth(p, addr) ==
    { pg \in PagesOf(p.mm.mapped_heap_end, align_up(addr, PAGE) - p.mm.mapped_heap_end) :
        p.map[pg] = NoFrame }

\* C11: a brk(addr) that cannot be honoured (addr below heap_start, or the
\* allocator has fewer free frames than the growth needs) returns the
\* unchanged current break, a non-negative value, and leaves brk_cur,
\* mapped_heap_end and the page mappings as they were.
C11_FailedBrkChangesNothing ==
    [][(ret'.op = "brk" /\ ret'.arg # 0
          /\ (ret'.arg < Top(G).mm.heap_start
              \/ Cardinality(BrkGrowth(Top(G), ret'.arg)) > FreeFrames))
         => (/\ ret'.rax = Top(G).mm.brk_cur
             /\ ret'.rax >= 0
             /\ Top(G)'.mm.brk_cur = Top(G).mm.brk_cur
             /\ Top(G)'.mm.mapped_heap_end = Top(G).mm.mapped_heap_end
             /\ Top(G)'.map = Top(G).map)]_vars

----------------------------------------------------------------------------
(* Properties: descriptors *)

\* The smallest descriptor at or above min_fd that is not open in tbl.
MinFree(tbl, min_fd) ==
    CHOOSE f \in min_fd .. Max(min_fd, Len(tbl) + 3) :
        /\ ~FdEntry(tbl, f).some
        /\ \A e \in min_fd .. (f - 1) : FdEntry(tbl, e).some

\* C12: open and openat return the smallest descriptor >= 3 that is not
\* open, and fcntl(F_DUPFD) with argument a the smallest one >= max(a, 3)
\* that is not open.
C12_MinimumFd ==
    [][/\ (ret'.op \in {"open", "openat"} /\ ret'.rax >= 0)
            => ret'.rax = MinFree(Top(G).fd_table, 3)
       /\ (ret'.op = "fcntl" /\ ret'.arg[2] = F_DUPFD /\ ret'.rax >= 0)
            => ret'.rax = MinFree(Top(G).fd_table, Max(ret'.arg2, 3))]_vars

\* Descriptor 3 was closed and is handed out again by openat while
\* descriptor 4 is still open.
C12_Witness ==
    /\ ret.op = "openat" /\ ret.rax = 3
    /\ FdEntry(Top(G).fd_table, 4).some
    /\ \E id \in 1 .. Len(Top(G).files) : ~Top(G).files[id].live

\* What close(fd) = rax did between the process states p and q.
CloseEffect(p, q, fd, rax) ==
    IF fd \in 0 .. 2
    THEN rax = 0 /\ q.fd_table = p.fd_table
    ELSE IF FdEntry(p.fd_table, fd).some
    THEN rax = 0 /\ q.fd_table = [p.fd_table EXCEPT ![fd - 2] = NoneFd]
    ELSE rax = EBADF /\ q.fd_table = p.fd_table

\* C13: in every process, slot f - 3 of the fd table is occupied exactly
\* when f >= 3 was returned by open, openat or F_DUPFD and not closed
\* since; close of an open descriptor returns 0 and empties only its slot,
\* close of a descriptor >= 3 that is not open returns -EBADF and changes
\* nothing, and close of 0, 1 or 2 returns 0 and changes nothing.
C13_FdSlotsFollowOpenClose ==
    /\ [](\A i \in 2 .. Len(proc_list) :
            \A f \in 3 .. (Len(proc_list[i].fd_table) + 4) :
                FdEntry(proc_list[i].fd_table, f).some <=> f \in proc_list[i].opened)
    /\ [][ret'.op = "close"
            => CloseEffect(Top(G), Top(G)', ret'.arg, ret'.rax)]_vars

\* Descriptor 3 is closed a second time, with -EBADF, while descriptor 4
\* stays open.
C13_Witness ==
    /\ ret.op = "close" /\ ret.arg = 3 /\ ret.rax = EBADF
    /\ Top(G).opened = {4}
    /\ \E id \in 1 .. Len(Top(G).files) : ~Top(G).files[id].live

\* The descriptors of process p that refer to the OpenFile of descriptor f.
SameFile(p, f) ==
    { e \in 3 .. (Len(p.fd_table) + 2) :
        FdEntry(p.fd_table, e).some /\ FdEntry(p.fd_table, e).file = FdEntry(p.fd_table, f).file }

\* C14: after n = fcntl(f, F_DUPFD, a) succeeded, n >= a, n differs from f,
\* n has FD_CLOEXEC clear, f's entry is unchanged and both refer to the
\* same open file; a seek or an F_SETFL made through a descriptor is seen
\* through every descriptor of the same open file; closing a descriptor
\* leaves the others of its open file usable; and the node of an open file
\* is released exactly when its last descriptor is closed.
C14_DupSharesOpenFile ==
    /\ [][(ret'.op = "fcntl" /\ ret'.arg[2] = F_DUPFD /\ ret'.rax >= 0)
            => (/\ ret'.rax >= ret'.arg2
                /\ ret'.rax # ret'.arg[1]
                /\ ret'.rax \in SameFile(Top(G)', ret'.arg[1])
                /\ fcntl(G', ret'.rax, F_GETFD, 0).rax = 0
                /\ FdEntry(Top(G)'.fd_table, ret'.arg[1])
                     = FdEntry(Top(G).fd_table, ret'.arg[1])
                /\ Top(G)'.files = Top(G).files)]_vars
    /\ [][(ret'.op = "lseek" /\ ret'.rax >= 0)
            => \A e \in SameFile(Top(G), ret'.arg[1]) :
                  lseek(G', e, 0, 1).rax = ret'.rax]_vars
    /\ [][(ret'.op = "fcntl" /\ ret'.arg[2] = F_SETFL /\ ret'.arg[1] >= 3 /\ ret'.rax = 0)
            => \A e \in SameFile(Top(G), ret'.arg[1]) :
                  /\ fcntl(G', e, F_GETFL, 0).rax = fcntl(G', ret'.arg[1], F_GETFL, 0).rax
                  /\ MaskAnd(fcntl(G', e, F_GETFL, 0).rax, STATUS_FLAG_MUTABLE)
                       = MaskAnd(ret'.arg2, STATUS_FLAG_MUTABLE)]_vars
    /\ [][(ret'.op = "close" /\ ret'.arg >= 3 /\ ret'.rax = 0)
            => \A e \in SameFile(Top(G), ret'.arg) \ {ret'.arg} :
                  /\ lseek(G', e, 0, 1).rax = lseek(G, e, 0, 1).rax
                  /\ fcntl(G', e, F_GETFL, 0).rax = fcntl(G, e, F_GETFL, 0).rax
                  /\ Top(G)'.files[FdEntry(Top(G).fd_table, e).file].live]_vars
    /\ [](\A i \in 2 .. Len(proc_list) : \A id \in 1 .. Len(proc_list[i].files) :
            proc_list[i].files[id].live
                <=> \E k \in 1 .. Len(proc_list[i].fd_table) :
                       proc_list[i].fd_table[k].some /\ proc_list[i].fd_table[k].file = id)

\* Descriptor 4 came from F_DUPFD of descriptor 3, 3 has been closed, and
\* a seek through 4 works on the open file that is still held.
C14_Witness ==
    /\ ret.op = "lseek" /\ ret.arg = <<4, 0>> /\ ret.rax = 3
    /\ ~FdEntry(Top(G).fd_table, 3).some
    /\ Len(Top(G).files) = 1 /\ Top(G).files[1].live /\ Top(G).files[1].seek = 3

----------------------------------------------------------------------------
(* The initial stack on its own: build_initial_stack applied to argument   *)
(* and environment vectors drawn from small sets.                          *)

ArgStrings == {"a", "bc", "hello"}
EnvStrings == {"USER=root", "USER=guest"}
SeqsUpTo(S, lo, hi) == UNION { [1 .. k -> S] : k \in lo .. hi }

\* What Process::new hands to build_initial_stack besides the two vectors:
\* <<aux_entry, at_base, phdr_addr, phent, phnum>>.
StackImages ==
    { <<PAGE + 16, 0, 0, PHDR_SIZE, 1>>,
      <<MAIN_DYN_LOAD_BASE + 32, INTERP_DYN_LOAD_BASE, MAIN_DYN_LOAD_BASE + EHDR_SIZE,
        PHDR_SIZE, 3>> }

InitStack ==
    /\ Booted
    /\ frames_count = NFrames
    /\ ret \in { [op |-> "stack_args", rax |-> 0, arg |-> <<argv, envp>>, arg2 |-> im,
                  born |-> {}] :
                 argv \in SeqsUpTo(ArgStrings, 1, MaxArgs),
                 envp \in SeqsUpTo(EnvStrings, 0, MaxEnv),
                 im \in StackImages }

BuildStack ==
    /\ ret.op = "stack_args"
    /\ Apply(G, Ret("stack",
                    build_initial_stack(USER_STACK_TOP, ret.arg2[1], ret.arg2[2],
                                        ret.arg[1], ret.arg[2], ret.arg2[3],
                                        ret.arg2[4], ret.arg2[5]),
                    ret.arg, ret.arg2, {}))

NextStack == BuildStack
SpecStack == InitStack /\ [][NextStack]_vars

----------------------------------------------------------------------------
(* The system call trampoline *)

\* The registers x86_64_syscall_handler pushes after the synthetic interrupt
\* frame, in push order, and the ones it pops after the call, in pop order.
PushOrder_rsi_before_rdx == <<"rax", "rcx", "rsi", "rdx", "rdi", "r8", "r9", "r10", "r11">>

PushOrder == <<"rax", "rcx", "rdx", "rsi", "rdi", "r8", "r9", "r10", "r11">>

PopOrder == <<"r11", "r10", "r9", "r8", "rdi", "rsi", "rdx", "rcx", "rax">>

\* The fields of struct Registers, from the lowest address up.
Registers == <<"r11", "r10", "r9", "r8", "rdi", "rsi", "rdx", "rcx", "rax">>

\* The selectors pushed for the user's stack and code segments.
USER_SS_SEL == "user_ss"
USER_CS_SEL == "user_cs"

\* What a register holds after compiled code that need not preserve it ran.
Clobbered == "clobbered"

\* A machine is [r, rip, rflags, kstack, gs8]: the general registers and
\* RSP, the kernel stack from its top (the lowest address) and the scratch
\* slot gs:[0x08].
push(c, v) == [c EXCEPT !.kstack = << v >> \o @]

RECURSIVE push_regs(_, _, _)
push_regs(c, names, i) ==
    IF i > Len(names) THEN c ELSE push_regs(push(c, c.r[names[i]]), names, i + 1)

RECURSIVE pop_regs(_, _, _)
pop_regs(c, names, i) ==
    IF i > Len(names) THEN c
    ELSE pop_regs([c EXCEPT !.r[names[i]] = Head(c.kstack), !.kstack = Tail(@)], names, i + 1)

\* The SYSCALL instruction: RCX takes the address of the next instruction,
\* R11 the flags, and the flags lose the bits of IA32_FMASK.
syscall_insn(c) ==
    [c EXCEPT !.r.rcx = c.rip + SYSCALL_LEN, !.r.r11 = c.rflags,
              !.rflags = c.rflags - (BitAnd(c.rflags, TF_FLAG) + BitAnd(c.rflags, IF_FLAG)),
              !.rip = "x86_64_syscall_handler"]

\* The field of the Registers view that lies on top of the kernel stack.
RegsSlot(name) == CHOOSE i \in 1 .. Len(Registers) : Registers[i] = name

\* syscall_handler: it reads the number and the arguments from the view,
\* stores the result in the view's rax, and leaves the registers the
\* calling convention does not protect with values of its own.
syscall_handler(c, res) ==
    [c |-> [c EXCEPT !.kstack[RegsSlot("rax")] = res,
                     !.r = [n \in DOMAIN c.r |-> IF n = "rsp" THEN c.r[n] ELSE Clobbered]],
     seen |-> [number |-> c.kstack[RegsSlot("rax")], arg1 |-> c.kstack[RegsSlot("rdi")],
               arg2 |-> c.kstack[RegsSlot("rsi")], arg3 |-> c.kstack[RegsSlot("rdx")],
               arg4 |-> c.kstack[RegsSlot("r10")], arg5 |-> c.kstack[RegsSlot("r8")],
               arg6 |-> c.kstack[RegsSlot("r9")]]]

\* x86_64_syscall_handler up to the call: the user's RSP goes to gs:[0x08],
\* the kernel stack gets the frame SS, RSP, RFLAGS, CS, RIP and the
\* registers.
trampoline_entry(c) ==
    Let([c EXCEPT !.gs8 = c.r.rsp, !.r.rsp = "kernel_stack", !.kstack = << >>], LAMBDA c1 :
    Let(push(push(push(push(push(c1, USER_SS_SEL), c1.gs8), c1.r.r11), USER_CS_SEL), c1.r.rcx),
        LAMBDA c2 : push_regs(c2, PushOrder, 1)))

\* x86_64_syscall_handler after the call: the registers are popped, then
\* RCX takes the frame's RIP, the CS slot is skipped, R11 takes the
\* frame's RFLAGS and RSP the frame's RSP; SYSRETQ loads RIP from RCX and
\* the flags from R11.
trampoline_exit(c) ==
    Let(pop_regs(c, PopOrder, 1), LAMBDA c1 :
    Let(pop_regs(c1, << "rcx" >>, 1), LAMBDA c2 :
    Let(pop_regs([c2 EXCEPT !.kstack = Tail(@)], << "r11", "rsp" >>, 1), LAMBDA c3 :
        [c3 EXCEPT !.rip = c3.r.rcx, !.rflags = c3.r.r11])))

\* One system call from the SYSCALL instruction to the return to user mode.
x86_64_syscall_handler(c, res) ==
    Let(syscall_handler(trampoline_entry(syscall_insn(c)), res), LAMBDA h :
        [c |-> trampoline_exit(h.c), seen |-> h.seen])

\* User programs about to execute SYSCALL.
UserMachines ==
    { [r |-> [rax |-> rax, rcx |-> 70, rdx |-> rdx, rsi |-> rsi, rdi |-> rdi, r8 |-> 50,
              r9 |-> 90, r10 |-> 40, r11 |-> 80, rsp |-> rsp],
       rip |-> PAGE + 16, rflags |-> rflags, kstack |-> << >>, gs8 |-> 0] :
      rax \in {0, 1, 8}, rdx \in {30, 31}, rsi \in {20, 21}, rdi \in {10, 11},
      rsp \in {USER_STACK_TOP - 64}, rflags \in {IF_FLAG + 2, IF_FLAG + TF_FLAG + 2} }

InitTramp ==
    /\ Booted
    /\ frames_count = NFrames
    /\ ret \in { [op |-> "user_regs", rax |-> 0, arg |-> c, arg2 |-> 0, born |-> {}] :
                 c \in UserMachines }

Syscall(res) ==
    /\ ret.op = "user_regs"
    /\ Let(x86_64_syscall_handler(ret.arg, res), LAMBDA t :
           Apply(G, Ret("sysret", res, t.c, [entry |-> ret.arg, seen |-> t.seen], {})))

NextTramp == \E res \in {0, 5, EBADF} : Syscall(res)

SpecTramp == InitTramp /\ [][NextTramp]_vars

----------------------------------------------------------------------------
(* Properties: the initial stack *)

\* The 8-byte word k words above the stack pointer of image img.
Word(img, k) == img.mem[img.rsp + (8 * k)]

\* C15: for every argv and environment the stack pointer handed to the new
\* program satisfies (RSP + 8) % 16 = 0 and the word at RSP is argc.
C15_StackAligned ==
    ret.op = "stack" =>
        /\ (ret.rax.rsp + 8) % 16 = 0
        /\ Word(ret.rax, 0) = Len(ret.arg[1])

\* The string a stack word points at ("" when it points at no string).
StrAt(img, k) ==
    IF Word(img, k) \in DOMAIN img.cstr THEN img.cstr[Word(img, k)] ELSE ""

\* C16: reading upward from RSP gives argc, the argv pointers in the
\* caller's order, NULL, the envp pointers in the environment's order, NULL
\* and the auxv pairs ending with (0, 0); each pointer addresses the copy
\* of its string.
C16_StackLayout ==
    ret.op = "stack" =>
        LET img == ret.rax
            argv == ret.arg[1]
            envp == ret.arg[2]
            argc == Len(argv)
            aux0 == argc + Len(envp) + 3
        IN  /\ Word(img, 0) = argc
            /\ \A i \in 1 .. argc : StrAt(img, i) = argv[i]
            /\ Word(img, argc + 1) = 0
            /\ \A j \in 1 .. Len(envp) : StrAt(img, argc + 1 + j) = envp[j]
            /\ Word(img, argc + Len(envp) + 2) = 0
            /\ \E n \in 1 .. 14 :
                  /\ \A k \in 0 .. (n - 2) : Word(img, aux0 + (2 * k)) # 0
                  /\ Word(img, aux0 + (2 * (n - 1))) = 0
                  /\ Word(img, aux0 + (2 * (n - 1)) + 1) = 0

----------------------------------------------------------------------------
(* Properties: the loaded images *)

AT_PHDR == 3
AT_BASE == 7
AT_ENTRY == 9

\* The value the auxv of stack image img carries under key, envc being the
\* number of environment pointers below the auxv.
AuxVal(img, envc, key) ==
    LET aux0 == img.argc + envc + 3
        k == CHOOSE i \in 0 .. 13 : Word(img, aux0 + (2 * i)) = key
    IN  Word(img, aux0 + (2 * k) + 1)

\* The file process p was started from: argv[0] is the command name at the
\* console and the path in execve.
ImageOf(p) ==
    LET name == StrAt(p.stack_image, 1)
    IN  IF vfs_open(name).kind = "file" THEN vfs_open(name).elf
        ELSE vfs_open(BinPath(name)).elf

MainBias(elf) == IF elf.e_type = ET_DYN THEN MAIN_DYN_LOAD_BASE ELSE 0
InterpBias(elf) == IF elf.e_type = ET_DYN THEN INTERP_DYN_LOAD_BASE ELSE 0

InsideImage(elf, bias, addr) ==
    \E i \in 1 .. Len(elf.segs) :
        bias + elf.segs[i][1] <= addr /\ addr < bias + elf.segs[i][1] + elf.segs[i][2]

\* Entry, AT_ENTRY and AT_BASE of process p, started from image elf.
EntryAndBase(p, elf) ==
    IF elf.interp # ""
    THEN LET ld == vfs_open(elf.interp).elf
         IN  /\ p.entry_point = ld.e_entry + InterpBias(ld)
             /\ AuxVal(p.stack_image, Len(USER_ENV), AT_ENTRY) = elf.e_entry + MainBias(elf)
             /\ AuxVal(p.stack_image, Len(USER_ENV), AT_BASE) = InterpBias(ld)
    ELSE /\ p.entry_point = elf.e_entry + MainBias(elf)
         /\ AuxVal(p.stack_image, Len(USER_ENV), AT_BASE) = 0

\* Whether every PT_LOAD of elf is at least as long in memory as in the
\* file.
WellSized(elf) == \A i \in 1 .. Len(elf.segs) : elf.segs[i][4] <= elf.segs[i][2]

\* Whether some PT_LOAD of elf holds the whole program header table in its
\* file contents.
TableInLoad(elf) ==
    \E i \in 1 .. Len(elf.segs) :
        /\ elf.segs[i][3] <= elf.e_phoff
        /\ elf.e_phoff + (elf.e_phentsize * elf.e_phnum) <= elf.segs[i][3] + elf.segs[i][4]

C18_RegionsPageAligned ==
    \A i \in 1 .. Len(proc_list) :
        \A j \in 1 .. Len(proc_list[i].addr_size_vec) :
            /\ proc_list[i].addr_size_vec[j][1] % PAGE = 0
            /\ proc_list[i].addr_size_vec[j][2] % PAGE = 0

----------------------------------------------------------------------------
(* Properties: the system call boundary *)

\* C19: a syscall handed a path pointer that is NULL or whose string
\* exceeds the length bound returns -EFAULT, having looked nothing up,
\* started no process and installed no descriptor.
C19_BadPathPointerIsEFAULT ==
    [][(ret'.op \in {"sys_open", "sys_execve"} /\ ret'.arg.kind # "str") =>
          /\ ret'.rax = 0 - EFAULT
          /\ cpu'.mode = "user"
          /\ Len(proc_list') = Len(proc_list)
          /\ Top(G)'.fd_table = Top(G).fd_table]_vars

\* C20: a failed syscall leaves a value in -4095 .. -1 in RAX: an
\* unrecognised number yields -ENOSYS, an unrecognised arch_prctl code a
\* negative errno.
C20_NegativeErrno ==
    cpu.mode = "user" =>
        /\ ret.op \in {"sys_open", "sys_execve", "close", "arch_prctl", "unknown"} =>
              ret.rax >= 0 - 4095
        /\ ret.op = "unknown" => ret.rax = 0 - ENOSYS_DISPATCH
        /\ (ret.op = "arch_prctl"
              /\ ret.arg \notin {ARCH_SET_FS, ARCH_GET_FS, ARCH_SET_GS, ARCH_GET_GS}) =>
              ret.rax \in (0 - 4095) .. (0 - 1)

----------------------------------------------------------------------------
(* Properties: input and output *)

NonBlocking(p) == BitAnd(p.stdio_flags[1], O_NONBLOCK) # 0

\* C21: with O_NONBLOCK set on fd 0 and no pipeline input, read(0, buf, n)
\* never suspends: it returns -EAGAIN when no byte is queued and otherwise
\* returns without halting.
C21_NonBlockingReadNeverHalts ==
    /\ [](cpu.mode = "halt" => ~NonBlocking(Top(G)))
    /\ [][(ret'.op = "read_std" /\ ret'.arg = 0 /\ cpu.mode = "user"
             /\ NonBlocking(Top(G)) /\ tty.input_buffer = << >>)
          => ret'.rax = 0 - EAGAIN]_vars

\* The open file behind a descriptor of the running process.
FileOf(fd) == Top(G).files[fd_slot(Top(G), fd).entry.file]

\* A write that succeeded on a descriptor opened with O_APPEND.
AppendWrite ==
    /\ ret'.op = "write_fd" /\ ret'.rax = Len(ret'.arg2) /\ InUser
    /\ fd_slot(Top(G), ret'.arg).ok
    /\ BitAnd(FileOf(ret'.arg).status_flags, O_APPEND) # 0

\* C22: a write on a descriptor with O_APPEND lands at the end the file
\* has at that moment: the file grows by the bytes written, they are its
\* new tail, and no byte it had before is changed.
C22_AppendLandsAtEnd ==
    [][AppendWrite =>
        /\ disk'.size = disk.size + Len(ret'.arg2)
        /\ SubSeq(disk'.data, 1, disk.size) = SubSeq(disk.data, 1, disk.size)
        /\ SubSeq(disk'.data, disk.size + 1, disk'.size) = ret'.arg2]_vars

\* An lseek of the running process on an open descriptor.
SeekOn(whence) ==
    /\ ret'.op = "lseek" /\ InUser
    /\ ret'.arg[2] = whence
    /\ fd_slot(Top(G), ret'.arg[1]).ok

\* The cursor of the descriptor after the call.
SeekAfter(fd) == proc_list'[Len(proc_list)].files[fd_slot(Top(G), fd).entry.file].seek

\* C23: lseek moves the cursor to the offset taken from the start of the
\* file, from the cursor or from the size of the file, as whence selects,
\* and returns the new cursor.
C23_LseekRelative ==
    [][/\ SeekOn(0) => ret'.rax = ret'.arg2 /\ SeekAfter(ret'.arg[1]) = ret'.arg2
       /\ SeekOn(1) => /\ ret'.rax = FileOf(ret'.arg[1]).seek + ret'.arg2
                       /\ SeekAfter(ret'.arg[1]) = ret'.rax
       /\ SeekOn(2) => /\ ret'.rax = FileOf(ret'.arg[1]).size + ret'.arg2
                       /\ SeekAfter(ret'.arg[1]) = ret'.rax]_vars

\* C24: an lseek whose whence, as passed in the register, is none of
\* SEEK_SET, SEEK_CUR and SEEK_END returns -EINVAL and leaves the cursor
\* where it was.
C24_BadWhenceIsEINVAL ==
    [][(\E w \in {3, 256, 258, 0 - 1} : SeekOn(w))
         => /\ ret'.rax = EINVAL
            /\ SeekAfter(ret'.arg[1]) = FileOf(ret'.arg[1]).seek]_vars

\* A getdents64 of the running process on an open directory.
ReadsDir ==
    /\ ret'.op = "getdents64" /\ InUser
    /\ fd_slot(Top(G), ret'.arg[1]).ok
    /\ FileOf(ret'.arg[1]).kind = "dir"

\* The entries of the directory behind a descriptor.
EntriesOf(fd) == ls(PathString(FileOf(fd).path))

\* C25: while entries of the directory are still unread, getdents64 does
\* not return 0, however small the buffer is.
C25_ZeroOnlyAtEnd ==
    [][(ReadsDir /\ FileOf(ret'.arg[1]).seek < Len(EntriesOf(ret'.arg[1])))
         => ret'.rax # 0]_vars

\* The names of a sequence of records or entries, in order.
NamesOf(items, from, to) == [k \in 1 .. (to - from) |-> items[from + k].name]

\* The longest record of a directory.
RECURSIVE MaxReclen(_)
MaxReclen(entries) ==
    IF entries = << >> THEN 0
    ELSE Max(dirent64_reclen(Len(Head(entries).name)), MaxReclen(Tail(entries)))

\* C26: getdents64 calls with a buffer that holds the longest record hand
\* out the entries of the directory in order, each exactly once: what an
\* open directory has emitted is always the entries before its cursor;
\* a call emits the entries from the old cursor to the new one, returns
\* the sum of their record lengths, which are multiples of 8 and fit the
\* buffer, and moves on while entries remain; at the end it returns 0.
C26_EachEntryOnce ==
    /\ [](\A i \in 1 .. Len(proc_list) : \A id \in 1 .. Len(proc_list[i].files) :
            LET f == proc_list[i].files[id]
            IN  f.kind = "dir" =>
                    /\ f.seek <= Len(ls(PathString(f.path)))
                    /\ f.emitted = NamesOf(ls(PathString(f.path)), 0, f.seek))
    /\ [][(ReadsDir /\ ret'.arg[3] # 0 /\ ret'.arg[2] >= MaxReclen(EntriesOf(ret'.arg[1])))
           => LET fd == ret'.arg[1]
                  items == ret'.arg2
              IN  /\ [k \in 1 .. Len(items) |-> items[k].d_name]
                        = NamesOf(EntriesOf(fd), FileOf(fd).seek, SeekAfter(fd))
                  /\ ret'.rax = SumReclen(items)
                  /\ ret'.rax <= ret'.arg[2]
                  /\ \A k \in 1 .. Len(items) : items[k].d_reclen % 8 = 0
                  /\ FileOf(fd).seek < Len(EntriesOf(fd)) => SeekAfter(fd) > FileOf(fd).seek
                  /\ FileOf(fd).seek >= Len(EntriesOf(fd))
                        => ret'.rax = 0 /\ SeekAfter(fd) = FileOf(fd).seek]_vars

\* A directory read to its end in two calls, and a further call that returned 0.
C26_Witness ==
    /\ InUser /\ ret.op = "getdents64" /\ ret.rax = 0 /\ ret.arg = <<3, 4096, BufAddr>>
    /\ fd_slot(Top(G), 3).ok /\ FileOf(3).kind = "dir"
    /\ FileOf(3).seek = Len(EntriesOf(3))
    /\ FileOf(3).emitted = NamesOf(EntriesOf(3), 0, Len(EntriesOf(3)))
    /\ SyscallsDone = 4

\* The lengths of the segments of a vector that are not empty.
SegLens(iov) == SelectSeq(iov, LAMBDA n : n # 0)

RECURSIVE SumSeq(_)
SumSeq(q) == IF q = << >> THEN 0 ELSE Head(q) + SumSeq(Tail(q))

\* C27: readv and writev stop at the first segment that transfers less
\* than its length or fails, return the bytes transferred by the segments
\* before it plus the short transfer, and return the errno when the first
\* segment that is not empty fails.
C27_VectorTotals ==
    [][(ret'.op \in {"readv", "writev"} /\ ret'.arg2 # << >>)
         => LET rs == ret'.arg2
                lens == SegLens(ret'.arg[2])
            IN  /\ Len(rs) <= Len(lens)
                /\ \A k \in 1 .. (Len(rs) - 1) : rs[k] = lens[k]
                /\ Len(rs) < Len(lens) => rs[Len(rs)] < lens[Len(rs)]
                /\ rs[1] < 0 => ret'.rax = rs[1]
                /\ rs[1] >= 0 => ret'.rax = SumSeq(SelectSeq(rs, LAMBDA r : r >= 0))]_vars

\* C28: no two processes of the table have the same PID, and the PID
\* counter only grows, so that every new process gets a PID above all
\* the PIDs handed out before.
C28_PidsUniqueIncreasing ==
    /\ [](\A i, j \in 1 .. Len(proc_list) :
            i # j => proc_list[i].pid # proc_list[j].pid)
    /\ [][NEXT_PID' >= NEXT_PID]_vars

\* A poll call that is waiting in halt() for its deadline.
PollWaits == cpu.mode = "halt" /\ polling.active /\ polling.timeout_ms > 0

----------------------------------------------------------------------------
(* Properties: the system call trampoline *)

\* C30: a system call that returns resumes user mode at the instruction
\* after SYSCALL with RSP, RFLAGS, RDI, RSI, RDX, R10, R8 and R9 as they
\* were at entry and RAX the handler's result; the registers are pushed in
\* the order of the Registers view, and the dispatcher reads the number
\* from RAX and the arguments from RDI, RSI, RDX, R10, R8 and R9.
C30_TrampolineRestores ==
    ret.op = "sysret" =>
        LET entry == ret.arg2.entry
            seen == ret.arg2.seen
            after == ret.arg
        IN  /\ after.rip = entry.rip + SYSCALL_LEN
            /\ after.rflags = entry.rflags
            /\ \A n \in {"rsp", "rdi", "rsi", "rdx", "r10", "r8", "r9"} : after.r[n] = entry.r[n]
            /\ after.r.rax = ret.rax
            /\ Reverse(PushOrder) = Registers
            /\ seen = [number |-> entry.r.rax, arg1 |-> entry.r.rdi, arg2 |-> entry.r.rsi,
                       arg3 |-> entry.r.rdx, arg4 |-> entry.r.r10, arg5 |-> entry.r.r8,
                       arg6 |-> entry.r.r9]

\* A call whose arguments all differ, returned with an errno.
C30_Witness ==
    /\ ret.op = "sysret" /\ ret.rax = EBADF
    /\ ret.arg2.entry.r.rax = 8 /\ ret.arg2.entry.r.rdi = 11
    /\ ret.arg2.entry.rflags = IF_FLAG + TF_FLAG + 2
    /\ ret.arg.r.rax = EBADF

----------------------------------------------------------------------------
(* Properties: status flags *)

\* The status flags of a descriptor of process p.
StatusOf(p, fd) ==
    IF fd <= 2 THEN p.stdio_flags[fd + 1] ELSE p.files[fd_slot(p, fd).entry.file].status_flags

\* The descriptors of process p that stand for something.
LiveFds(p) == (0 .. 2) \cup { fd \in 3 .. Len(p.fd_table) + 2 : fd_slot(p, fd).ok }

\* An fcntl of the running process that returned without an error.
FcntlDone(cmd) ==
    /\ ret'.op = "fcntl" /\ ret'.arg[2] = cmd /\ ret'.rax >= 0 /\ InUser

\* C31: F_SETFL replaces the O_APPEND and O_NONBLOCK bits of the
\* descriptor's status flags by those of its argument and keeps every
\* other bit, so the next F_GETFL returns the two combined, on the
\* standard descriptors as on the others; no fcntl changes the access mode
\* of a descriptor.
C31_SetflOnlyMutableBits ==
    [][/\ FcntlDone(F_SETFL) =>
            LET fd == ret'.arg[1]
                old == StatusOf(Top(G), fd)
                new == MaskAnd(ret'.arg2, {O_APPEND, O_NONBLOCK})
                           + (old - MaskAnd(old, {O_APPEND, O_NONBLOCK}))
            IN  /\ fcntl(Entered', fd, F_GETFL, 0).rax = new
                /\ StatusOf(proc_list'[Len(proc_list)], fd) = new
                /\ new % (O_ACCMODE + 1) = old % (O_ACCMODE + 1)
                /\ proc_list'[Len(proc_list)].fd_table = Top(G).fd_table
                /\ proc_list'[Len(proc_list)].stdio_fd_flags = Top(G).stdio_fd_flags
       /\ (ret'.op = "fcntl" /\ InUser) =>
            \A fd \in LiveFds(Top(G)) :
                StatusOf(proc_list'[Len(proc_list)], fd) % (O_ACCMODE + 1)
                    = StatusOf(Top(G), fd) % (O_ACCMODE + 1)]_vars

\* F_SETFL with access-mode and directory bits in its argument went through
\* on a read-only file and on standard output.
C31_Witness ==
    /\ ret.op = "fcntl" /\ ret.arg[2] = F_SETFL /\ ret.rax = 0
    /\ ret.arg2 = O_APPEND + O_NONBLOCK + O_WRONLY + O_DIRECTORY
    /\ InUser /\ fd_slot(Top(G), 3).ok
    /\ StatusOf(Top(G), 3) = O_RDONLY + O_APPEND + O_NONBLOCK
    /\ StatusOf(Top(G), 1) = O_WRONLY + O_NONBLOCK

----------------------------------------------------------------------------
(* Properties: alloc_pages on mapped pages *)

\* The frames a call took from the allocator, the pages it mapped and the
\* page tables it created.
FramesTaken(b, a) == Cardinality(a.bitmap \ b.bitmap)
PagesMapped(b, a) == Cardinality({ p \in VPages : b.map[p] = NoFrame /\ a.map[p] # NoFrame })
TablesMade(b, a) == Cardinality({ g \in Groups : b.tables[g] = NoFrame /\ a.tables[g] # NoFrame })

\* C32: alloc_pages leaves a page that is mapped already with its frame
\* and takes no frame for it: the frames a call or a load takes are those
\* of the pages it newly maps and of the page tables it creates, so a page
\* two segments share costs one frame.
C32_AllocPagesIdempotent ==
    ret.op \in {"alloc_pages", "load_segments"} =>
        LET b == ret.arg2.before
            a == ret.arg
        IN  /\ \A p \in VPages : b.map[p] # NoFrame => a.map[p] = b.map[p]
            /\ FramesTaken(b, a) = PagesMapped(b, a) + TablesMade(b, a)

----------------------------------------------------------------------------
(* Properties: the heap and the mmap regions *)

\* The pages of [from, to).
SpanPages(from, to) == { p \in VPages : p * PAGE < to /\ (p + 1) * PAGE > from }

\* The pages of the heap and of the tracked mmap regions of process p.
HeapPages(p) == SpanPages(p.mm.heap_start, p.mm.brk_cur)
MmapPages(p) ==
    UNION { SpanPages(p.mm.mmap_regions[i].base,
                      p.mm.mmap_regions[i].base + p.mm.mmap_regions[i].len) :
            i \in 1 .. Len(p.mm.mmap_regions) }

\* C33: under brk and mmap calls that leave the address to the kernel,
\* the heap [heap_start, brk_cur) of a process shares no page with its
\* tracked mmap regions, and a brk call leaves the pages of the mmap
\* regions mapped to the frames they had.
C33_HeapApartFromMmap ==
    /\ [](\A i \in 2 .. Len(proc_list) : HeapPages(proc_list[i]) \cap MmapPages(proc_list[i]) = {})
    /\ [][(ret'.op = "brk" /\ InUser) =>
            \A q \in MmapPages(Top(G)) : proc_list'[Len(proc_list)].map[q] = Top(G).map[q]]_vars

----------------------------------------------------------------------------
(* Properties: the GS base at system call entry *)

\* C34: every system call entry loads the kernel stack pointer through
\* the kernel's block: after the trampoline's SWAPGS the GS base is the
\* address switch_tasks put in IA32_KERNEL_GS_BASE, whatever the user
\* programs passed to arch_prctl before, and in user mode that register
\* always holds it.
C34_KernelGsAtEntry ==
    /\ msr.entry = kgs_va
    /\ InUser => msr.kgs = kgs_va

----------------------------------------------------------------------------
(* Properties: the keyboard interrupt and the input queue's lock *)

\* C35: the keyboard interrupt handler always returns: it never finds
\* the lock of the input queue held by the code it interrupted.
C35_KeyboardIsrCompletes ==
    /\ ret.arg.isr ~> ~ret.arg.isr
    /\ [](ret.arg.isr => ret.arg.lock = "free")

----------------------------------------------------------------------------
(* Properties: what a pipeline leaves behind *)

\* C36: a pipeline stage is installed only while a stage that needs it
\* runs: when the console is back at its prompt no stage is left in
\* PIPELINE_STATE, and what the program of a command line without a pipe
\* writes to fd 1 reaches the terminal.
C36_NoStageLeftBehind ==
    /\ [](cpu.mode = "console" => ~PIPELINE_STATE.some)
    /\ [][(ret'.op = "write" /\ InUser /\ Len(line.segments) = 1)
            => terminal' = terminal \o ret'.arg]_vars

----------------------------------------------------------------------------
(* Properties: what a terminal read returns *)

\* A read of the terminal by the running process that returns in this
\* step, at once or after it sat in halt().
TtyReadReturns ==
    /\ ret'.op = "read_std" /\ ret'.arg = 0 /\ ret'.rax >= 0
    /\ cpu.mode \in {"user", "halt"} /\ cpu'.mode = "user"
    /\ ~(PIPELINE_STATE.some /\ PIPELINE_STATE.has_input)

\* The bytes the read stored in the caller's buffer: those it stored
\* before it halted and those this step took from the queue.
TtyStored ==
    (IF tty.rd.active THEN tty.rd.i ELSE 0) + (Len(tty.input_buffer) - Len(tty'.input_buffer))

\* C37: a terminal read returns the number of bytes it stored, at most
\* the length asked for, and the bytes it took are the head of the queue,
\* each taken once.
C37_ReadReturnsStoredCount ==
    [][TtyReadReturns =>
        /\ ret'.rax = TtyStored
        /\ ret'.rax <= ret'.arg2
        /\ tty'.input_buffer =
             SubSeq(tty.input_buffer, Len(tty.input_buffer) - Len(tty'.input_buffer) + 1,
                    Len(tty.input_buffer))]_vars

----------------------------------------------------------------------------
(* Properties: the kernel switch stack *)

\* The frames the switch stack of a process covers: context_switch_rsp is
\* the first frame allocate_switch_stack took, and the stack is the
\* SWITCH_STACK_FRAMES frames from it on.
SWITCH_STACK_FRAMES == 4
SwitchStackOf(p) == p.context_switch_rsp .. (p.context_switch_rsp + SWITCH_STACK_FRAMES - 1)

\* C38: the switch stack of a new process lies in frames that
\* allocate_switch_stack took for it: the four frames from the first one
\* on were free before the process was made and are allocated after.
C38_SwitchStackInOwnFrames ==
    [][Len(proc_list') = Len(proc_list) + 1 =>
          SwitchStackOf(proc_list'[Len(proc_list')]) \subseteq (bitmap' \ bitmap)]_vars

----------------------------------------------------------------------------
(* The frame allocator over a boot memory map.  A memory map is a sequence *)
(* of entries [base, length, usable] in bytes; the allocator b is          *)
(* [a, usable_regions, bitmap_addr, bitmap_size, panic] where a is the     *)
(* [bitmap, next, count] of allocate_frame, over frame indexes, and a      *)
(* usable region is [first_frame, frame_count] in frame numbers.           *)

MAX_REGIONS == 32
NoAddr == 0 - 1

frame_at(addr) == addr \div PAGE

UsableRegion_new(start_addr, end_addr) ==
    [first_frame |-> frame_at(start_addr),
     frame_count |-> (frame_at(end_addr - 1) - frame_at(start_addr)) + 1]

bitmap_size_of(memory_map) ==
    ((SumSeq([i \in 1 .. Len(memory_map) |->
                 IF memory_map[i].usable THEN memory_map[i].length \div PAGE ELSE 0]) + 63)
        \div 64) * 8

RECURSIVE init_regions(_, _, _, _, _)
init_regions(memory_map, i, bitmap_size, bitmap_addr, regions) ==
    IF i > Len(memory_map)
    THEN [bitmap_addr |-> bitmap_addr, regions |-> regions]
    ELSE
    LET region       == memory_map[i]
        region_start == region.base
        region_end   == region.base + region.length
        placed       == IF bitmap_addr = NoAddr /\ region.length >= bitmap_size
                        THEN region_start ELSE bitmap_addr
        bitmap_end   == region_start + bitmap_size
        here         == placed # NoAddr /\ region_start = placed
        usable_start == IF here THEN bitmap_end ELSE region_start
    IN  IF ~region.usable
        THEN init_regions(memory_map, i + 1, bitmap_size, bitmap_addr, regions)
        ELSE IF here /\ bitmap_end >= region_end
        THEN init_regions(memory_map, i + 1, bitmap_size, placed, regions)
        ELSE IF region_end - usable_start >= PAGE
        THEN IF Len(regions) >= MAX_REGIONS
             THEN [bitmap_addr |-> placed, regions |-> regions]
             ELSE init_regions(memory_map, i + 1, bitmap_size, placed,
                               Append(regions, UsableRegion_new(usable_start, region_end)))
        ELSE init_regions(memory_map, i + 1, bitmap_size, placed, regions)

BitmapFrameAllocator_init(memory_map) ==
    LET r == init_regions(memory_map, 1, bitmap_size_of(memory_map), NoAddr, << >>)
    IN  [a |-> [bitmap |-> {}, next |-> 0,
                count |-> SumSeq([i \in 1 .. Len(r.regions) |-> r.regions[i].frame_count])],
         usable_regions |-> r.regions,
         bitmap_addr |-> r.bitmap_addr,
         bitmap_size |-> bitmap_size_of(memory_map),
         panic |-> r.bitmap_addr = NoAddr]

RECURSIVE index_to_frame_from(_, _, _, _)
index_to_frame_from(b, index, i, base) ==
    IF i > Len(b.usable_regions) THEN NoFrame
    ELSE IF index < base + b.usable_regions[i].frame_count
    THEN b.usable_regions[i].first_frame + (index - base)
    ELSE index_to_frame_from(b, index, i + 1, base + b.usable_regions[i].frame_count)

index_to_frame(b, index) ==
    IF index >= b.a.count THEN NoFrame ELSE index_to_frame_from(b, index, 1, 0)

RECURSIVE frame_to_index_from(_, _, _, _)
frame_to_index_from(b, frame, i, base) ==
    IF i > Len(b.usable_regions) THEN NoFrame
    ELSE IF /\ b.usable_regions[i].first_frame <= frame
            /\ frame <= b.usable_regions[i].first_frame + (b.usable_regions[i].frame_count - 1)
    THEN base + (frame - b.usable_regions[i].first_frame)
    ELSE frame_to_index_from(b, frame, i + 1, base + b.usable_regions[i].frame_count)

frame_to_index(b, frame) == frame_to_index_from(b, frame, 1, 0)

\* FrameAllocator::allocate_frame: the index found, as a physical frame.
Bitmap_allocate_frame(b) ==
    Let(allocate_frame(b.a), LAMBDA r :
        [frame |-> IF r.frame = NoFrame THEN NoFrame ELSE index_to_frame(b, r.frame),
         b |-> [b EXCEPT !.a = r.a]])

\* FrameDeallocator::deallocate_frame.
Bitmap_deallocate_frame(b, frame) ==
    Let(frame_to_index(b, frame), LAMBDA index :
        IF index = NoFrame THEN b ELSE [b EXCEPT !.a = deallocate_frame(b.a, index)])

\* Boot memory maps: a region whose bitmap takes eight bytes, behind a
\* reserved one; two usable regions; one whose bitmap fills one frame
\* exactly; and a map without usable memory.
MemoryMaps ==
    { << [base |-> 0, length |-> PAGE, usable |-> FALSE],
         [base |-> 16 * PAGE, length |-> 4 * PAGE, usable |-> TRUE] >>,
      << [base |-> PAGE, length |-> 2 * PAGE, usable |-> TRUE],
         [base |-> 8 * PAGE, length |-> 3 * PAGE, usable |-> TRUE] >>,
      << [base |-> 256 * PAGE, length |-> 32768 * PAGE, usable |-> TRUE] >>,
      << [base |-> 0, length |-> PAGE, usable |-> FALSE] >> }

\* The state is ret.arg = [b, held]: the allocator and the frames handed
\* out and not given back since.
InitBitmap ==
    /\ Booted
    /\ frames_count = NFrames
    /\ \E memory_map \in MemoryMaps :
          ret = [op |-> "init", rax |-> 0,
                 arg |-> [b |-> BitmapFrameAllocator_init(memory_map), held |-> {}],
                 arg2 |-> NoFrame, born |-> {}]

AllocateFrame ==
    /\ ret.op \in {"init", "allocate_frame", "deallocate_frame"}
    /\ ~ret.arg.b.panic
    /\ Cardinality(ret.arg.held) < MaxHeld
    /\ Let(Bitmap_allocate_frame(ret.arg.b), LAMBDA r :
          Apply(G, Ret("allocate_frame", 0,
                       [b |-> r.b,
                        held |-> IF r.frame = NoFrame THEN ret.arg.held
                                 ELSE ret.arg.held \cup {r.frame}],
                       r.frame, {})))

DeallocateFrame(frame) ==
    /\ ret.op \in {"init", "allocate_frame", "deallocate_frame"}
    /\ ~ret.arg.b.panic
    /\ Apply(G, Ret("deallocate_frame", 0,
                    [b |-> Bitmap_deallocate_frame(ret.arg.b, frame),
                     held |-> ret.arg.held \ {frame}],
                    frame, {}))

NextBitmap ==
    \/ AllocateFrame
    \/ \E frame \in ret.arg.held : DeallocateFrame(frame)

SpecBitmap == InitBitmap /\ [][NextBitmap]_vars

\* The frame covers part of the memory that holds the bitmap.
OverBitmap(b, frame) ==
    /\ frame * PAGE < b.bitmap_addr + b.bitmap_size
    /\ b.bitmap_addr < (frame + 1) * PAGE

\* C39: a frame allocate_frame hands out is not one it handed out before
\* and has not got back, and does not overlap the memory of its bitmap.
C39_FrameNotInUse ==
    [][(ret'.op = "allocate_frame" /\ ret'.arg2 # NoFrame) =>
          /\ ret'.arg2 \notin ret.arg.held
          /\ ~OverBitmap(ret'.arg.b, ret'.arg2)]_vars

----------------------------------------------------------------------------
(* The initramfs archive.  A buffer is a sequence of bytes, an iterator is *)
(* [buf, pos] with pos counted from 0.                                     *)

CpioNewCHeader_SIZE == 110
CPIO_MAGIC == <<48, 55, 48, 55, 48, 49>>
TRAILER_NAME == <<84, 82, 65, 73, 76, 69, 82, 33, 33, 33>>
S_IFREG == 32768
S_IFDIR == 16384

\* The slice buf[from .. to) of the code, offsets from 0.
Slice(buf, from, to) == SubSeq(buf, from + 1, to)

RECURSIVE hex_to_u64_from(_, _, _)
hex_to_u64_from(b, i, acc) ==
    IF i > Len(b) THEN acc
    ELSE LET c == b[i]
         IN  IF c >= 48 /\ c <= 57 THEN hex_to_u64_from(b, i + 1, (acc * 16) + (c - 48))
             ELSE IF c >= 97 /\ c <= 102 THEN hex_to_u64_from(b, i + 1, (acc * 16) + (c - 87))
             ELSE IF c >= 65 /\ c <= 70 THEN hex_to_u64_from(b, i + 1, (acc * 16) + (c - 55))
             ELSE 0 - 1

\* hex_to_u64 of an eight-byte field; -1 is None.
hex_to_u64(b) == hex_to_u64_from(b, 1, 0)

\* CpioNewCHeader::from_bytes: the fields the iterator and the installer read.
CpioNewCHeader_from_bytes(bytes) ==
    [c_magic    |-> Slice(bytes, 0, 6),
     c_mode     |-> Slice(bytes, 14, 22),
     c_filesize |-> Slice(bytes, 54, 62),
     c_namesize |-> Slice(bytes, 94, 102)]

is_regular_file(hdr) ==
    Let(hex_to_u64(hdr.c_mode), LAMBDA m : m >= 0 /\ ((m \div 4096) % 16) * 4096 = S_IFREG)

align4(x) == (4 - (x % 4)) % 4

\* CpioIterator::next: item is "none" at the end of the iteration, "ok"
\* for an entry, else the error.
CpioIterator_next(it) ==
    LET len  == Len(it.buf)
        Same(item) == [it |-> it, item |-> item, regular |-> FALSE, data |-> << >>]
    IN
    IF it.pos >= len THEN Same("none")
    ELSE IF len - it.pos < CpioNewCHeader_SIZE THEN Same("Truncated")
    ELSE
    LET hdr == CpioNewCHeader_from_bytes(Slice(it.buf, it.pos, len))
        namesize == hex_to_u64(hdr.c_namesize)
        filesize == hex_to_u64(hdr.c_filesize)
        name_start == it.pos + CpioNewCHeader_SIZE
        name_end == name_start + namesize
        raw_name == Slice(it.buf, name_start, name_end)
        file_data_start == name_end + align4(CpioNewCHeader_SIZE + namesize)
        file_data_end == file_data_start + filesize
    IN  IF hdr.c_magic # CPIO_MAGIC THEN Same("BadMagic")
        ELSE IF namesize < 0 \/ filesize < 0 THEN Same("HexParseFailed")
        ELSE IF name_end > len THEN Same("Truncated")
        ELSE IF file_data_start > len THEN Same("Truncated")
        ELSE IF file_data_end > len THEN Same("Truncated")
        ELSE IF raw_name = Append(TRAILER_NAME, 0) \/ raw_name = TRAILER_NAME
        THEN [it |-> [it EXCEPT !.pos = len], item |-> "Trailer",
              regular |-> FALSE, data |-> << >>]
        ELSE [it |-> [it EXCEPT !.pos = file_data_end + align4(filesize)], item |-> "ok",
              regular |-> is_regular_file(hdr),
              data |-> Slice(it.buf, file_data_start, file_data_end)]

\* One turn of the installer's `while let Some(cpio_res) = initramfs.next()`
\* over the state q = [it, pc, item, copied]: a regular file is copied, an
\* error is passed over, None ends the loop.
install_turn(q) ==
    Let(CpioIterator_next(q.it), LAMBDA r :
        [it |-> r.it,
         pc |-> IF r.item = "none" THEN "done" ELSE "loop",
         item |-> r.item,
         copied |-> IF r.item = "ok" /\ r.regular THEN Append(q.copied, r.data) ELSE q.copied])

\* Archives to iterate over.
HexDigit(d) == IF d < 10 THEN 48 + d ELSE 87 + d
Pow16(k) == IF k = 0 THEN 1 ELSE IF k = 1 THEN 16 ELSE IF k = 2 THEN 256 ELSE IF k = 3 THEN 4096
            ELSE IF k = 4 THEN 65536 ELSE IF k = 5 THEN 1048576 ELSE IF k = 6 THEN 16777216
            ELSE 268435456
Hex8(n) == [i \in 1 .. 8 |-> HexDigit((n \div Pow16(8 - i)) % 16)]

CpioMember(magic, mode, namesize, filesize, name, data) ==
    magic \o Hex8(1) \o Hex8(mode) \o Hex8(0) \o Hex8(0) \o Hex8(1) \o Hex8(0)
          \o filesize \o Hex8(0) \o Hex8(0) \o Hex8(0) \o Hex8(0) \o namesize \o Hex8(0)
          \o name \o Zeros(align4(CpioNewCHeader_SIZE + Len(name)))
          \o data \o Zeros(align4(Len(data)))

CpioMembers ==
    { CpioMember(CPIO_MAGIC, S_IFREG + 420, Hex8(2), Hex8(2), <<97, 0>>, <<104, 105>>),
      CpioMember(CPIO_MAGIC, S_IFDIR + 493, Hex8(3), Hex8(0), <<98, 99, 0>>, << >>),
      CpioMember(CPIO_MAGIC, 0, Hex8(11), Hex8(0), Append(TRAILER_NAME, 0), << >>),
      CpioMember(<<48, 55, 48, 55, 48, 55>>, S_IFREG + 420, Hex8(2), Hex8(2), <<97, 0>>, <<104, 105>>),
      CpioMember(CPIO_MAGIC, S_IFREG + 420, [i \in 1 .. 8 |-> 122], Hex8(2), <<97, 0>>, <<104, 105>>) }

RECURSIVE Joined(_)
Joined(q) == IF q = << >> THEN << >> ELSE Head(q) \o Joined(Tail(q))

CpioBuffers ==
    { Let(Joined(ms), LAMBDA whole : Slice(whole, 0, Len(whole) - Min(cut, Len(whole)))) :
        ms \in UNION { [1 .. n -> CpioMembers] : n \in 0 .. MaxMembers }, cut \in {0, 5} }

InitCpio ==
    /\ Booted
    /\ frames_count = NFrames
    /\ \E buf \in CpioBuffers :
          ret = [op |-> "install", rax |-> 0,
                 arg |-> [it |-> [buf |-> buf, pos |-> 0], pc |-> "loop",
                          item |-> "new", copied |-> << >>],
                 arg2 |-> 0, born |-> {}]

InstallTurn ==
    /\ ret.op = "install" /\ ret.arg.pc = "loop"
    /\ Apply(G, Ret("install", 0, install_turn(ret.arg), 0, {}))

NextCpio == InstallTurn

\* The installer runs on: its loop keeps calling next() until it gets None.
SpecCpio == InitCpio /\ [][NextCpio]_vars /\ WF_vars(InstallTurn)

\* C40: iterating the archive comes to an end, whatever the buffer holds:
\* the installer, which passes over errors, gets None after finitely many
\* calls of next().
C40_IterationEnds == <>(ret.arg.pc = "done")

====
